---- MODULE Spec2Model ----
(***************************************************************************)
(* Ephemeral credential and session lifecycle of the event-signup backend: *)
(* the OTP store (utils/otpService.js), the reset-token store              *)
(* (utils/passwordResetService.js), the JWT service (utils/jwtService.js), *)
(* the token blacklist (utils/tokenBlacklist.js) and the authentication    *)
(* middleware (middleware/authMiddleware.js).                              *)
(*                                                                         *)
(* Node runs every synchronous stretch of a handler to completion, so one  *)
(* action is one stretch between two awaits.  Time is in milliseconds, as  *)
(* Date.now() gives it.  Strings are sequences of one-character strings.   *)
(***************************************************************************)
EXTENDS Integers, Sequences, FiniteSets, TLC

\* ------------------------------------------------------------------------
\* Bounds of the model
\* ------------------------------------------------------------------------
MaxTicks == 2

MaxIssues == 2

\* registration ids handed out stay at or below this
MaxRegistrationId == 2

\* user documents ever created, the two initial ones included
MaxUsers == 3

\* event ids handed out by createEvent stay at or below this
MaxEventId == 1

\* time slot ids handed out by createEvent stay at or below this
MaxTimeSlotId == 2

\* Clock advances (ms): one millisecond and the OTP lifetime for the OTP
\* store; one millisecond and the reset-token lifetime where both stores run.
OtpTickSteps == {1, 30000}

StoreTickSteps == {1, 900000}

\* where requests race: the reset-token lifetime, which also ends an OTP
RaceTickSteps == {900000}

\* ------------------------------------------------------------------------
\* Values
\* ------------------------------------------------------------------------
NULL == [tag |-> "null"]

UNDEFINED == [tag |-> "undefined"]

NaN == "NaN"

\* A call that ended by throwing
THROWN == [tag |-> "thrown"]

\* Ghost: no credential issued yet for a key
NoIssue == [tag |-> "none"]

\* Ghost: a credential was issued for key k
Issued(issue, k) == issue[k] # NoIssue

\* the step answered no request
NoResponse ==
  [slot |-> "", status |-> 0, message |-> "", data |-> UNDEFINED]

\* Raw e-mail arguments: two accounts, the first also written in upper case
\* and with surrounding blanks.
EmailA == <<"a", "@", "x", ".", "y">>

EmailAUpper == <<"A", "@", "X", ".", "y">>

EmailAPadded == <<" ", "a", "@", "x", ".", "y", " ">>

EmailB == <<"b", "@", "x", ".", "y">>

Emails == {EmailA, EmailAUpper, EmailAPadded, EmailB}

\* A request field that is absent or the empty string: !field holds
FALSY == <<>>

\* req.body after the JSON parser: a record of its fields; {} has none
NoBody == <<>>

\* a body whose only field is one that no handler reads
OtherBody == [foo |-> <<"1">>]

FieldlessBodies == {NoBody, OtherBody}

\* !req.body || Object.keys(req.body).length === 0
bodyMissing(body) == DOMAIN body = {}

\* const { k } = req.body, as the handlers' !k tests and string methods
\* read it: an absent field is as falsy as the empty string
field(body, k) == IF k \in DOMAIN body THEN body[k] ELSE FALSY

\* Request slots: the requests the server handles at the same time
Slots == {"r1", "r2"}

\* Values of floor(Math.random() * 900000) the model draws.
RandomDraws == {23456, 899999}

\* Values of crypto.randomBytes(32).toString("hex") the model draws.
RandomHex == {<<"a", "1">>, <<"b", "2">>}

UserIds == {1, 2}

\* (email, userId) arguments of an issuance: the controllers pass the stored
\* user's email and id, callers of the service may pass any spelling.
Accounts ==
  {<<EmailA, 1>>, <<EmailAUpper, 1>>, <<EmailAPadded, 1>>, <<EmailB, 2>>}

\* the spellings of one account
AccountsOfA == {a \in Accounts : a[2] = 1}

\* ------------------------------------------------------------------------
\* Strings
\* ------------------------------------------------------------------------
Upper == <<"A", "B", "X", "Y">>

Lower == <<"a", "b", "x", "y">>

Whitespace == {" ", "\t", "\n"}

DigitChars == <<"0", "1", "2", "3", "4", "5", "6", "7", "8", "9">>

\* String.prototype.toLowerCase, one character
lowerChar(c) ==
  IF \E i \in 1..Len(Upper) : Upper[i] = c
  THEN Lower[CHOOSE i \in 1..Len(Upper) : Upper[i] = c]
  ELSE c

\* String.prototype.toLowerCase
toLowerCase(s) == [i \in 1..Len(s) |-> lowerChar(s[i])]

RECURSIVE trimStart(_)
trimStart(s) ==
  IF s # <<>> /\ Head(s) \in Whitespace THEN trimStart(Tail(s)) ELSE s

RECURSIVE trimEnd(_)
trimEnd(s) ==
  IF s # <<>> /\ s[Len(s)] \in Whitespace
  THEN trimEnd(SubSeq(s, 1, Len(s) - 1))
  ELSE s

\* String.prototype.trim
trim(s) == trimEnd(trimStart(s))

\* email.toLowerCase().trim(): the key of both stores
emailKey(email) == trim(toLowerCase(email))

\* Number.prototype.toString of a non-negative integer
RECURSIVE toString(_)
toString(n) ==
  IF n < 10 THEN <<DigitChars[n + 1]>>
  ELSE toString(n \div 10) \o <<DigitChars[(n % 10) + 1]>>

digitValue(c) == (CHOOSE i \in 1..10 : DigitChars[i] = c) - 1

isDigit(c) == \E i \in 1..10 : DigitChars[i] = c

RECURSIVE parseDigits(_, _)
parseDigits(s, acc) ==
  IF s # <<>> /\ isDigit(Head(s))
  THEN parseDigits(Tail(s), acc * 10 + digitValue(Head(s)))
  ELSE acc

HexLower == <<"a", "b", "c", "d", "e", "f">>

HexUpper == <<"A", "B", "C", "D", "E", "F">>

isHexDigit(c) ==
  isDigit(c) \/ \E i \in 1..6 : HexLower[i] = c \/ HexUpper[i] = c

hexValue(c) ==
  IF isDigit(c) THEN digitValue(c)
  ELSE 9 + (CHOOSE i \in 1..6 : HexLower[i] = c \/ HexUpper[i] = c)

RECURSIVE parseHexDigits(_, _)
parseHexDigits(s, acc) ==
  IF s # <<>> /\ isHexDigit(Head(s))
  THEN parseHexDigits(Tail(s), acc * 16 + hexValue(Head(s)))
  ELSE acc

\* what parseInt reads after the leading blanks and an optional sign
afterSign(s) ==
  LET t == trimStart(s)
  IN IF t # <<>> /\ Head(t) \in {"+", "-"} THEN Tail(t) ELSE t

\* the number starts with 0x or 0X: it is read in base 16
hasHexPrefix(u) == Len(u) >= 2 /\ u[1] = "0" /\ u[2] \in {"x", "X"}

\* isNaN(parseInt(s)): no digit follows the blanks, the sign and the prefix
parseIntIsNaN(s) ==
  LET u == afterSign(s)
  IN IF hasHexPrefix(u)
     THEN Len(u) = 2 \/ ~isHexDigit(u[3])
     ELSE u = <<>> \/ ~isDigit(Head(u))

\* parseInt of a string: leading blanks skipped, an optional sign, an
\* optional 0x prefix, then the longest prefix of digits of the base
parseInt(s) ==
  LET t == trimStart(s)
      u == afterSign(s)
      magnitude == IF hasHexPrefix(u)
                   THEN parseHexDigits(SubSeq(u, 3, Len(u)), 0)
                   ELSE parseDigits(u, 0)
  IN IF parseIntIsNaN(s) THEN NaN
     ELSE IF t # <<>> /\ Head(t) = "-" THEN 0 - magnitude
     ELSE magnitude

\* ------------------------------------------------------------------------
\* Map: a set of entries, at most one per key when built by MapSet
\* ------------------------------------------------------------------------
MapHas(m, k) == \E e \in m : e.key = k

MapGet(m, k) ==
  IF MapHas(m, k) THEN (CHOOSE e \in m : e.key = k).val ELSE UNDEFINED

\* variant: appends without replacing the entry of the key
MapSet_append(m, k, v) == m \cup {[key |-> k, val |-> v]}

MapSet(m, k, v) == {e \in m : e.key # k} \cup {[key |-> k, val |-> v]}

MapDelete(m, k) == {e \in m : e.key # k}

MapKeys(m) == {e.key : e \in m}

\* ------------------------------------------------------------------------
\* State
\* ------------------------------------------------------------------------
VARIABLES
  now,              \* the clock, ms
  ticks,            \* clock advances taken so far
  issues,           \* credentials issued so far
  otpStore,         \* otpService.js otpStore
  resetTokenStore,  \* passwordResetService.js resetTokenStore
  otpIssue,         \* ghost: per key, the newest OTP issuance and its wins
  resetIssue,       \* ghost: per key, the newest reset-token issuance
  ret,              \* the last service call and what it returned
  reqs,             \* per slot, the handler in flight or its response
  users,            \* the users collection of the database
  env,              \* process.env: ACCESS_SECRET, REFRESH_SECRET, TZ
  blacklistedTokens,\* tokenBlacklist.js blacklistedTokens
  minted,           \* the tokens the JWT service has signed so far
  loggedOut,        \* ghost: the tokens logout requests have presented
  events,           \* the events collection of the database
  registrations,    \* the eventregistrations collection of the database
  oidCounter        \* the _id values the database has handed out so far

clockVars == <<now, ticks>>

storeVars == <<issues, otpStore, resetTokenStore, otpIssue, resetIssue>>

authVars == <<env, blacklistedTokens, minted, loggedOut>>

dbVars == <<events, registrations, oidCounter>>

\* what the two credential stores never touch
nonStoreVars == <<reqs, users, authVars, dbVars>>

vars == <<clockVars, storeVars, ret, reqs, users, authVars, dbVars>>

Keys == {emailKey(e) : e \in Emails}

\* the record of a step: the call it made (op, the store key its email
\* argument names, its other argument, what it returned), the response it
\* sent, the req.user it attached and the tokens its response carries
Call(op, email, arg, result) ==
  [op |-> op, key |-> emailKey(email), arg |-> arg, result |-> result,
   response |-> NoResponse, user |-> UNDEFINED, tokens |-> UNDEFINED]

\* the same step also answered the request of slot s
Respond(call, s, status, message) ==
  [call EXCEPT
     !.response = [slot |-> s, status |-> status, message |-> message,
                   data |-> UNDEFINED]]

\* the same, with a data member in the body that names the account's email
RespondData(call, s, status, message, email) ==
  [call EXCEPT
     !.response = [slot |-> s, status |-> status, message |-> message,
                   data |-> [email |-> email]]]

\* a step that calls neither store
NoCall == Call("none", <<>>, <<>>, UNDEFINED)

\* ------------------------------------------------------------------------
\* utils/otpService.js
\* ------------------------------------------------------------------------
\* variant: the five-minute lifetime of the earlier revision (lines 10-11)
OTP_EXPIRATION_TIME_5min == 5 * 60 * 1000

OTP_EXPIRATION_TIME == 30 * 1000

\* r is floor(Math.random() * 900000)
generateOTP(r) == toString(100000 + r)

\* variant: the sweep removes nothing
otpAfterCleanup_none(store, t) == store

\* otpStore after cleanupExpiredOTPs() ran at time t
otpAfterCleanup(store, t) == {e \in store : ~(t > e.val.expiresAt)}

\* otpStore after storeOTP(email, userId) drew otp at time t
otpAfterStore(store, email, userId, otp, t) ==
  otpAfterCleanup(
    MapSet(store, emailKey(email),
           [otp |-> otp, expiresAt |-> t + OTP_EXPIRATION_TIME,
            userId |-> userId]),
    t)

\* variant: an expired record is reported as such
verifyOTPResult_tellsExpired(store, email, otp, t) ==
  LET storedData == MapGet(store, emailKey(email))
  IN IF ~MapHas(store, emailKey(email)) THEN NULL
     ELSE IF t > storedData.expiresAt
     THEN [tag |-> "expired", userId |-> storedData.userId]
     ELSE IF storedData.otp # otp THEN NULL
     ELSE [tag |-> "object", userId |-> storedData.userId]

\* what verifyOTP(email, otp) returns at time t
verifyOTPResult(store, email, otp, t) ==
  LET storedData == MapGet(store, emailKey(email))
  IN IF ~MapHas(store, emailKey(email)) THEN NULL
     ELSE IF t > storedData.expiresAt THEN NULL
     ELSE IF storedData.otp # otp THEN NULL
     ELSE [tag |-> "object", userId |-> storedData.userId]

\* variant: a matching code is accepted without removing the record
otpAfterVerify_keepsUsed(store, email, otp, t) ==
  LET storedData == MapGet(store, emailKey(email))
  IN IF ~MapHas(store, emailKey(email)) THEN store
     ELSE IF t > storedData.expiresAt THEN MapDelete(store, emailKey(email))
     ELSE store

\* variant: an expired record is refused but left in the store
otpAfterVerify_keepsExpired(store, email, otp, t) ==
  LET storedData == MapGet(store, emailKey(email))
  IN IF ~MapHas(store, emailKey(email)) THEN store
     ELSE IF t > storedData.expiresAt THEN store
     ELSE IF storedData.otp # otp THEN store
     ELSE MapDelete(store, emailKey(email))

\* variant: a wrong code consumes the record
otpAfterVerify_consumesOnMismatch(store, email, otp, t) ==
  IF ~MapHas(store, emailKey(email)) THEN store
  ELSE MapDelete(store, emailKey(email))

\* otpStore after verifyOTP(email, otp) at time t
otpAfterVerify(store, email, otp, t) ==
  LET storedData == MapGet(store, emailKey(email))
  IN IF ~MapHas(store, emailKey(email)) THEN store
     ELSE IF t > storedData.expiresAt THEN MapDelete(store, emailKey(email))
     ELSE IF storedData.otp # otp THEN store
     ELSE MapDelete(store, emailKey(email))

\* ------------------------------------------------------------------------
\* utils/passwordResetService.js
\* ------------------------------------------------------------------------
\* variant: a lifetime of one hour
TOKEN_EXPIRATION_TIME_1h == 60 * 60 * 1000

TOKEN_EXPIRATION_TIME == 15 * 60 * 1000

\* h is crypto.randomBytes(32).toString("hex")
generateResetToken(h) == h

\* sha256 hex digest: one-way, never equal to its argument
hashToken(token) == <<"sha256">> \o token

\* variant: the sweep already removes a record at its expiry time
resetAfterCleanup_atExpiry(store, t) ==
  {e \in store : ~(t >= e.val.expiresAt)}

\* resetTokenStore after cleanupExpiredTokens() ran at time t
resetAfterCleanup(store, t) == {e \in store : ~(t > e.val.expiresAt)}

\* variant: the token is stored as handed out
resetAfterStore_plain(store, email, userId, plainToken, t) ==
  resetAfterCleanup(
    MapSet(store, emailKey(email),
           [token |-> plainToken,
            expiresAt |-> t + TOKEN_EXPIRATION_TIME,
            userId |-> userId]),
    t)

\* resetTokenStore after storeResetToken(email, userId) drew plainToken at t
resetAfterStore(store, email, userId, plainToken, t) ==
  resetAfterCleanup(
    MapSet(store, emailKey(email),
           [token |-> hashToken(plainToken),
            expiresAt |-> t + TOKEN_EXPIRATION_TIME,
            userId |-> userId]),
    t)

\* what verifyResetToken(email, token) returns at time t
verifyResetTokenResult(store, email, token, t) ==
  LET storedData == MapGet(store, emailKey(email))
  IN IF ~MapHas(store, emailKey(email)) THEN NULL
     ELSE IF t > storedData.expiresAt THEN NULL
     ELSE IF storedData.token # hashToken(token) THEN NULL
     ELSE [tag |-> "object", userId |-> storedData.userId]

\* variant: a matching token is accepted without removing the record
resetAfterVerify_keepsUsed(store, email, token, t) ==
  LET storedData == MapGet(store, emailKey(email))
  IN IF ~MapHas(store, emailKey(email)) THEN store
     ELSE IF t > storedData.expiresAt THEN MapDelete(store, emailKey(email))
     ELSE store

\* variant: verification never removes a record
resetAfterVerify_neverDeletes(store, email, token, t) == store

\* resetTokenStore after verifyResetToken(email, token) at time t
resetAfterVerify(store, email, token, t) ==
  LET storedData == MapGet(store, emailKey(email))
  IN IF ~MapHas(store, emailKey(email)) THEN store
     ELSE IF t > storedData.expiresAt THEN MapDelete(store, emailKey(email))
     ELSE IF storedData.token # hashToken(token) THEN store
     ELSE MapDelete(store, emailKey(email))

\* ------------------------------------------------------------------------
\* Inputs of the verifications
\* ------------------------------------------------------------------------
\* the codes the model can issue, and one that is never issued
OtpInputs == {generateOTP(r) : r \in RandomDraws} \cup {generateOTP(0)}

\* the plaintext tokens the model can issue, one that is never issued, and
\* the digest of an issued one (what a reader of the store would present)
TokenInputs ==
  {generateResetToken(h) : h \in RandomHex}
    \cup {<<"c", "3">>}
    \cup {hashToken(generateResetToken(h)) : h \in RandomHex}

\* Ghost of an issuance: secret is the plaintext handed out, at the time of
\* issue, wins the successful verifications since, superseded the secret of
\* the live record this issuance overwrote (<<>> if none); for a reset token,
\* nth is its number among the issuances for its key.
\* ghost bookkeeping: a successful verification counts for the newest issuance
Won(issue, key, result) ==
  IF result # NULL /\ issue[key] # NoIssue
  THEN [issue EXCEPT ![key].wins = @ + 1]
  ELSE issue

\* a slot without request
Idle == [pc |-> "idle"]

\* the users collection at start: one document per account
\* (resets is a ghost: the reset-token issuances, as key and number, that
\* changed the password)
InitialUsers ==
  {[oid |-> 1, id |-> 1, email |-> EmailA, password |-> <<"$2", "p", "1">>,
    resets |-> <<>>],
   [oid |-> 2, id |-> 2, email |-> EmailB, password |-> <<"$2", "p", "2">>,
    resets |-> <<>>]}

\* one day in ms
DayMs == 24 * 60 * 60 * 1000

\* an event document, by the fields the controllers query: its number is
\* in the field id under the Event schema of part_008 and in the field
\* eventId under the schema of models/User.js; a field a document lacks is
\* 0 here, which no query of the controllers asks for
EventDocument(id, eventId, eventDate) ==
  [id |-> id, eventId |-> eventId, eventDate |-> eventDate,
   timeSlots |-> <<>>]

\* the events collection at start: two events on the first day, at 09:00
\* and at 15:00, and one on the second day, numbered in the field id
InitialEvents ==
  {EventDocument(1, 0, 9 * 3600000),
   EventDocument(2, 0, 15 * 3600000),
   EventDocument(3, 0, DayMs + 9 * 3600000)}

\* the same collection with event 2 carrying its number in both fields, so
\* that the registration handlers (Event.findOne({ id })) and deleteEvent
\* (Event.findOne({ eventId })) select the same document
EventsNumberedTwice ==
  {EventDocument(1, 0, 9 * 3600000),
   EventDocument(2, 2, 15 * 3600000),
   EventDocument(3, 0, DayMs + 9 * 3600000)}

\* ------------------------------------------------------------------------
\* Initial state
\* ------------------------------------------------------------------------
Init ==
  /\ now = 0
  /\ ticks = 0
  /\ issues = 0
  /\ otpStore = {}
  /\ resetTokenStore = {}
  /\ otpIssue = [k \in Keys |-> NoIssue]
  /\ resetIssue = [k \in Keys |-> NoIssue]
  /\ ret = Call("init", <<>>, <<>>, UNDEFINED)
  /\ reqs = [s \in Slots |-> Idle]
  /\ users = InitialUsers
  /\ env = [ACCESS_SECRET |-> "k1", REFRESH_SECRET |-> "k2", TZ |-> 0]
  /\ blacklistedTokens = {}
  /\ minted = {}
  /\ loggedOut = {}
  /\ events = InitialEvents
  /\ registrations = {}
  /\ oidCounter = 2

\* ------------------------------------------------------------------------
\* The clock
\* ------------------------------------------------------------------------
Tick(d) ==
  /\ ticks < MaxTicks
  /\ now' = now + d
  /\ ticks' = ticks + 1
  /\ ret' = Call("tick", <<>>, <<>>, UNDEFINED)
  /\ UNCHANGED <<storeVars, nonStoreVars>>

\* ------------------------------------------------------------------------
\* Actions of utils/otpService.js
\* ------------------------------------------------------------------------
\* what the call storeOTP(email, userId) does to the store when it draws otp
storeOTPWrites(email, userId, otp) ==
  /\ issues < MaxIssues
  /\ issues' = issues + 1
  /\ otpStore' = otpAfterStore(otpStore, email, userId, otp, now)
  /\ otpIssue' = [otpIssue EXCEPT ![emailKey(email)] =
                    [tag |-> "issued", secret |-> otp, userId |-> userId,
                     at |-> now, wins |-> 0,
                     superseded |->
                       IF MapHas(otpStore, emailKey(email))
                       THEN MapGet(otpStore, emailKey(email)).otp
                       ELSE <<>>]]

storeOTP(email, userId, r) ==
  LET otp == generateOTP(r)
  IN /\ storeOTPWrites(email, userId, otp)
     /\ ret' = Call("storeOTP", email, userId, otp)
     /\ UNCHANGED <<clockVars, resetTokenStore, resetIssue, nonStoreVars>>

verifyOTP(email, otp) ==
  LET result == verifyOTPResult(otpStore, email, otp, now)
  IN /\ otpStore' = otpAfterVerify(otpStore, email, otp, now)
     /\ otpIssue' = Won(otpIssue, emailKey(email), result)
     /\ ret' = Call("verifyOTP", email, otp, result)
     /\ UNCHANGED <<clockVars, issues, resetTokenStore, resetIssue, nonStoreVars>>

getOTP(email) ==
  /\ ret' = Call("getOTP", email, <<>>,
                 IF MapHas(otpStore, emailKey(email))
                 THEN MapGet(otpStore, emailKey(email)) ELSE NULL)
  /\ UNCHANGED <<clockVars, storeVars, nonStoreVars>>

deleteOTP(email) ==
  /\ otpStore' = MapDelete(otpStore, emailKey(email))
  /\ ret' = Call("deleteOTP", email, <<>>, UNDEFINED)
  /\ UNCHANGED <<clockVars, issues, resetTokenStore, otpIssue, resetIssue, nonStoreVars>>

cleanupExpiredOTPs ==
  /\ otpStore' = otpAfterCleanup(otpStore, now)
  /\ ret' = Call("cleanupExpiredOTPs", <<>>, <<>>, UNDEFINED)
  /\ UNCHANGED <<clockVars, issues, resetTokenStore, otpIssue, resetIssue, nonStoreVars>>

\* ------------------------------------------------------------------------
\* Actions of utils/passwordResetService.js
\* ------------------------------------------------------------------------
\* what the call storeResetToken(email, userId) does to the store when it
\* draws plainToken
storeResetTokenWrites(email, userId, plainToken) ==
  /\ issues < MaxIssues
  /\ issues' = issues + 1
  /\ resetTokenStore' =
       resetAfterStore(resetTokenStore, email, userId, plainToken, now)
  /\ resetIssue' = [resetIssue EXCEPT ![emailKey(email)] =
                      [tag |-> "issued", secret |-> plainToken,
                       userId |-> userId, at |-> now, wins |-> 0,
                       nth |-> IF Issued(resetIssue, emailKey(email))
                               THEN resetIssue[emailKey(email)].nth + 1
                               ELSE 1,
                       superseded |->
                         IF MapHas(resetTokenStore, emailKey(email))
                         THEN resetIssue[emailKey(email)].secret
                         ELSE <<>>]]

storeResetToken(email, userId, h) ==
  LET plainToken == generateResetToken(h)
  IN /\ storeResetTokenWrites(email, userId, plainToken)
     /\ ret' = Call("storeResetToken", email, userId, plainToken)
     /\ UNCHANGED <<clockVars, otpStore, otpIssue, nonStoreVars>>

verifyResetToken(email, token) ==
  LET result == verifyResetTokenResult(resetTokenStore, email, token, now)
  IN /\ resetTokenStore' = resetAfterVerify(resetTokenStore, email, token, now)
     /\ resetIssue' = Won(resetIssue, emailKey(email), result)
     /\ ret' = Call("verifyResetToken", email, token, result)
     /\ UNCHANGED <<clockVars, issues, otpStore, otpIssue, nonStoreVars>>

getResetToken(email) ==
  /\ ret' = Call("getResetToken", email, <<>>,
                 IF MapHas(resetTokenStore, emailKey(email))
                 THEN MapGet(resetTokenStore, emailKey(email)) ELSE NULL)
  /\ UNCHANGED <<clockVars, storeVars, nonStoreVars>>

deleteResetToken(email) ==
  /\ resetTokenStore' = MapDelete(resetTokenStore, emailKey(email))
  /\ ret' = Call("deleteResetToken", email, <<>>, UNDEFINED)
  /\ UNCHANGED <<clockVars, issues, otpStore, otpIssue, resetIssue, nonStoreVars>>

cleanupExpiredTokens ==
  /\ resetTokenStore' = resetAfterCleanup(resetTokenStore, now)
  /\ ret' = Call("cleanupExpiredTokens", <<>>, <<>>, UNDEFINED)
  /\ UNCHANGED <<clockVars, issues, otpStore, otpIssue, resetIssue, nonStoreVars>>

\* ------------------------------------------------------------------------
\* controllers/authController.js: POST /auth/verify-otp
\* ------------------------------------------------------------------------
\* /^\S+@\S+\.\S+$/.test(s)
emailRegex(s) ==
  /\ \A i \in 1..Len(s) : s[i] \notin Whitespace
  /\ \E i, j \in 1..Len(s) :
       1 < i /\ i + 1 < j /\ j < Len(s) /\ s[i] = "@" /\ s[j] = "."

\* /^\d+$/.test(s)
digitsRegex(s) == s # <<>> /\ \A i \in 1..Len(s) : isDigit(s[i])

\* the validation errors of verifyOTP's body
verifyOTPErrors(email, otp) ==
  (IF email = FALSY \/ ~emailRegex(email) THEN {"email"} ELSE {})
    \cup (IF otp = FALSY \/ Len(otp) # 6 \/ ~digitsRegex(otp)
          THEN {"otp"} ELSE {})

\* User.findOne({ id: n })
findOneById(n) ==
  IF \E u \in users : u.id = n THEN CHOOSE u \in users : u.id = n ELSE NULL

\* verifyOTP up to its await: the checks of the request, the call of
\* otpService.verifyOTP and the 401 answer when that returns null
authController_verifyOTP(s, dbConnected, body) ==
  LET email == field(body, "email")
      otp == field(body, "otp")
  IN
  /\ reqs[s].pc = "idle"
  /\ IF ~dbConnected
     THEN /\ ret' = Respond(NoCall, s, 503,
                             "Database connection not available")
          /\ UNCHANGED <<storeVars, reqs>>
     ELSE IF bodyMissing(body)
     THEN /\ ret' = Respond(NoCall, s, 400, "Request body is missing")
          /\ UNCHANGED <<storeVars, reqs>>
     ELSE IF verifyOTPErrors(email, otp) # {}
     THEN /\ ret' = Respond(NoCall, s, 400, "Validation failed")
          /\ UNCHANGED <<storeVars, reqs>>
     ELSE LET otpResult == verifyOTPResult(otpStore, email, otp, now)
              call == Call("verifyOTP", email, otp, otpResult)
          IN /\ otpStore' = otpAfterVerify(otpStore, email, otp, now)
             /\ otpIssue' = Won(otpIssue, emailKey(email), otpResult)
             /\ IF otpResult = NULL
                THEN /\ ret' = Respond(call, s, 401, "Invalid or expired OTP")
                     /\ UNCHANGED reqs
                ELSE /\ ret' = call
                     /\ reqs' = [reqs EXCEPT ![s] =
                                   [pc |-> "verifyOTP:findOne",
                                    otpResult |-> otpResult]]
             /\ UNCHANGED <<issues, resetTokenStore, resetIssue>>
  /\ UNCHANGED <<clockVars, users, dbVars, authVars>>

\* verifyOTP after its await: the user lookup has settled
authController_verifyOTP_found(s, dbFails) ==
  /\ reqs[s].pc = "verifyOTP:findOne"
  /\ LET user == findOneById(parseInt(reqs[s].otpResult.userId))
     IN ret' = IF dbFails
               THEN Respond(NoCall, s, 500, "Internal server error")
               ELSE IF user = NULL
               THEN Respond(NoCall, s, 404, "User not found")
               ELSE RespondData(NoCall, s, 200, "Login successful",
                                user.email)
  /\ reqs' = [reqs EXCEPT ![s] = Idle]
  /\ UNCHANGED <<clockVars, storeVars, users, dbVars, authVars>>

\* ------------------------------------------------------------------------
\* bcryptjs and utils/emailService.js, as the controllers use them
\* ------------------------------------------------------------------------
\* bcrypt.hash(password, 10): a digest that only this password matches
bcryptHash(password) == <<"$2">> \o password

\* variant: every password matches
bcryptCompare_always(password, hash) == TRUE

\* bcrypt.compare(password, hash)
bcryptCompare(password, hash) == hash = bcryptHash(password)

\* await emailService.sendOTPEmail(...): resolves when the mail was
\* delivered, rejects with an Error otherwise
sendOTPEmail(delivered) ==
  IF delivered THEN [tag |-> "object", success |-> TRUE] ELSE THROWN

\* await emailService.sendPasswordResetEmail(...)
sendPasswordResetEmail(delivered) ==
  IF delivered THEN [tag |-> "object", success |-> TRUE] ELSE THROWN

\* User.findOne({ email })
findOneByEmail(email) ==
  IF \E u \in users : u.email = email
  THEN CHOOSE u \in users : u.email = email ELSE NULL

\* ------------------------------------------------------------------------
\* controllers/authController.js: POST /auth/login
\* ------------------------------------------------------------------------
\* the validation errors of login's body
loginErrors(email, password) ==
  (IF email = FALSY \/ ~emailRegex(email) THEN {"email"} ELSE {})
    \cup (IF password = FALSY THEN {"password"} ELSE {})

\* login up to its first await: the checks of the request
login(s, dbConnected, body) ==
  LET email == field(body, "email")
      password == field(body, "password")
  IN
  /\ reqs[s].pc = "idle"
  /\ IF ~dbConnected
     THEN /\ ret' = Respond(NoCall, s, 503,
                             "Database connection not available")
          /\ UNCHANGED reqs
     ELSE IF bodyMissing(body)
     THEN /\ ret' = Respond(NoCall, s, 400, "Request body is missing")
          /\ UNCHANGED reqs
     ELSE IF loginErrors(email, password) # {}
     THEN /\ ret' = Respond(NoCall, s, 400, "Validation failed")
          /\ UNCHANGED reqs
     ELSE /\ ret' = NoCall
          /\ reqs' = [reqs EXCEPT ![s] =
                        [pc |-> "login:findOne", email |-> emailKey(email),
                         password |-> password]]
  /\ UNCHANGED <<clockVars, storeVars, users, dbVars, authVars>>

\* login after User.findOne settled
login_found(s, dbFails) ==
  LET user == findOneByEmail(reqs[s].email)
  IN /\ reqs[s].pc = "login:findOne"
     /\ IF dbFails
        THEN /\ ret' = Respond(NoCall, s, 500, "Internal server error")
             /\ reqs' = [reqs EXCEPT ![s] = Idle]
        ELSE IF user = NULL
        THEN /\ ret' = Respond(NoCall, s, 401, "Invalid credentials")
             /\ reqs' = [reqs EXCEPT ![s] = Idle]
        ELSE /\ ret' = NoCall
             /\ reqs' = [reqs EXCEPT ![s] =
                           [pc |-> "login:compare", user |-> user,
                            password |-> reqs[s].password]]
     /\ UNCHANGED <<clockVars, storeVars, users, dbVars, authVars>>

\* login after bcrypt.compare settled: a valid password stores an OTP and
\* starts sending it
login_compared(s, r) ==
  LET user == reqs[s].user
      otp == generateOTP(r)
  IN /\ reqs[s].pc = "login:compare"
     /\ IF ~bcryptCompare(reqs[s].password, user.password)
        THEN /\ ret' = Respond(NoCall, s, 401, "Invalid credentials")
             /\ reqs' = [reqs EXCEPT ![s] = Idle]
             /\ UNCHANGED storeVars
        ELSE /\ storeOTPWrites(user.email, toString(user.id), otp)
             /\ ret' = Call("storeOTP", user.email, toString(user.id), otp)
             /\ reqs' = [reqs EXCEPT ![s] =
                           [pc |-> "login:send", user |-> user, otp |-> otp]]
             /\ UNCHANGED <<resetTokenStore, resetIssue>>
     /\ UNCHANGED <<clockVars, users, dbVars, authVars>>

\* variant: the failure of the delivery is logged and the request succeeds
loginAfterSend_swallows(call, s) ==
  Respond(call, s, 200,
          "OTP sent to your email. Please check your inbox and verify.")

\* the response of login when sendOTPEmail has settled as call.result
loginAfterSend(call, s) ==
  IF call.result = THROWN
  THEN Respond(call, s, 500, "Failed to send OTP email")
  ELSE RespondData(call, s, 200,
                   "OTP sent to your email. Please check your inbox and verify.",
                   call.key)

\* variant: a failed delivery takes the stored OTP back
otpAfterSend_rollsBack(store, email, result) ==
  IF result = THROWN THEN MapDelete(store, emailKey(email)) ELSE store

\* otpStore after sendOTPEmail settled: neither the catch block nor the
\* success path touches it
otpAfterSend(store, email, result) == store

\* login after sendOTPEmail settled
login_sent(s, delivered) ==
  /\ reqs[s].pc = "login:send"
  /\ ret' = loginAfterSend(Call("sendOTPEmail", reqs[s].user.email,
                                reqs[s].otp, sendOTPEmail(delivered)), s)
  /\ otpStore' = otpAfterSend(otpStore, reqs[s].user.email,
                              sendOTPEmail(delivered))
  /\ reqs' = [reqs EXCEPT ![s] = Idle]
  /\ UNCHANGED <<clockVars, issues, resetTokenStore, otpIssue, resetIssue,
                 users, dbVars, authVars>>

\* ------------------------------------------------------------------------
\* controllers/authController.js: POST /auth/forgot-password
\* ------------------------------------------------------------------------
forgotPasswordErrors(email) ==
  IF email = FALSY \/ ~emailRegex(email) THEN {"email"} ELSE {}

\* forgotPassword up to its first await
forgotPassword(s, dbConnected, body) ==
  LET email == field(body, "email")
  IN
  /\ reqs[s].pc = "idle"
  /\ IF ~dbConnected
     THEN /\ ret' = Respond(NoCall, s, 503,
                             "Database connection not available")
          /\ UNCHANGED reqs
     ELSE IF bodyMissing(body)
     THEN /\ ret' = Respond(NoCall, s, 400, "Request body is missing")
          /\ UNCHANGED reqs
     ELSE IF forgotPasswordErrors(email) # {}
     THEN /\ ret' = Respond(NoCall, s, 400, "Validation failed")
          /\ UNCHANGED reqs
     ELSE /\ ret' = NoCall
          /\ reqs' = [reqs EXCEPT ![s] =
                        [pc |-> "forgotPassword:findOne",
                         email |-> emailKey(email)]]
  /\ UNCHANGED <<clockVars, storeVars, users, dbVars, authVars>>

\* forgotPassword after User.findOne settled: an existing account gets a
\* reset token stored and the mail started
forgotPassword_found(s, dbFails, h) ==
  LET user == findOneByEmail(reqs[s].email)
      resetToken == generateResetToken(h)
  IN /\ reqs[s].pc = "forgotPassword:findOne"
     /\ IF dbFails
        THEN /\ ret' = Respond(NoCall, s, 500, "Internal server error")
             /\ reqs' = [reqs EXCEPT ![s] = Idle]
             /\ UNCHANGED storeVars
        ELSE IF user = NULL
        THEN /\ ret' = Respond(NoCall, s, 200,
                 "If an account with that email exists, a password reset link has been sent.")
             /\ reqs' = [reqs EXCEPT ![s] = Idle]
             /\ UNCHANGED storeVars
        ELSE /\ storeResetTokenWrites(user.email, toString(user.id),
                                      resetToken)
             /\ ret' = Call("storeResetToken", user.email,
                            toString(user.id), resetToken)
             /\ reqs' = [reqs EXCEPT ![s] =
                           [pc |-> "forgotPassword:send", user |-> user,
                            resetToken |-> resetToken]]
             /\ UNCHANGED <<otpStore, otpIssue>>
     /\ UNCHANGED <<clockVars, users, dbVars, authVars>>

\* the response of forgotPassword when sendPasswordResetEmail has settled
\* as call.result
forgotPasswordAfterSend(call, s) ==
  IF call.result = THROWN
  THEN Respond(call, s, 500, "Failed to send password reset email")
  ELSE RespondData(call, s, 200,
         "If an account with that email exists, a password reset link has been sent.",
         call.key)

\* resetTokenStore after sendPasswordResetEmail settled: neither the catch
\* block nor the success path touches it
resetAfterSend(store, email, result) == store

\* forgotPassword after sendPasswordResetEmail settled
forgotPassword_sent(s, delivered) ==
  /\ reqs[s].pc = "forgotPassword:send"
  /\ ret' = forgotPasswordAfterSend(
              Call("sendPasswordResetEmail", reqs[s].user.email,
                   reqs[s].resetToken, sendPasswordResetEmail(delivered)), s)
  /\ resetTokenStore' = resetAfterSend(resetTokenStore, reqs[s].user.email,
                                       sendPasswordResetEmail(delivered))
  /\ reqs' = [reqs EXCEPT ![s] = Idle]
  /\ UNCHANGED <<clockVars, issues, otpStore, otpIssue, resetIssue, users,
                 dbVars, authVars>>

\* ------------------------------------------------------------------------
\* controllers/authController.js: POST /auth/reset-password
\* ------------------------------------------------------------------------
\* the validation errors of resetPassword's body
resetPasswordErrors(email, token, newPassword) ==
  (IF email = FALSY \/ ~emailRegex(email) THEN {"email"} ELSE {})
    \cup (IF token = FALSY THEN {"token"} ELSE {})
    \cup (IF newPassword = FALSY \/ Len(newPassword) < 4
          THEN {"newPassword"} ELSE {})

\* resetPassword up to its first await: the checks of the request, the call
\* of verifyResetToken and the 401 answer when that returns null
resetPassword(s, dbConnected, body) ==
  LET email == field(body, "email")
      token == field(body, "token")
      newPassword == field(body, "newPassword")
  IN
  /\ reqs[s].pc = "idle"
  /\ IF ~dbConnected
     THEN /\ ret' = Respond(NoCall, s, 503,
                             "Database connection not available")
          /\ UNCHANGED <<storeVars, reqs>>
     ELSE IF bodyMissing(body)
     THEN /\ ret' = Respond(NoCall, s, 400, "Request body is missing")
          /\ UNCHANGED <<storeVars, reqs>>
     ELSE IF resetPasswordErrors(email, token, newPassword) # {}
     THEN /\ ret' = Respond(NoCall, s, 400, "Validation failed")
          /\ UNCHANGED <<storeVars, reqs>>
     ELSE LET tokenResult ==
                verifyResetTokenResult(resetTokenStore, email, token, now)
              call == Call("verifyResetToken", email, token, tokenResult)
          IN /\ resetTokenStore' =
                  resetAfterVerify(resetTokenStore, email, token, now)
             /\ resetIssue' = Won(resetIssue, emailKey(email), tokenResult)
             /\ IF tokenResult = NULL
                THEN /\ ret' = Respond(call, s, 401,
                                       "Invalid or expired reset token")
                     /\ UNCHANGED reqs
                ELSE /\ ret' = call
                     /\ reqs' = [reqs EXCEPT ![s] =
                                   [pc |-> "resetPassword:findOne",
                                    tokenResult |-> tokenResult,
                                    newPassword |-> newPassword,
                                    issuance |->
                                      [key |-> emailKey(email),
                                       nth |->
                                         resetIssue[emailKey(email)].nth]]]
             /\ UNCHANGED <<issues, otpStore, otpIssue>>
  /\ UNCHANGED <<clockVars, users, dbVars, authVars>>

\* resetPassword after User.findOne settled
resetPassword_found(s, dbFails) ==
  LET user == findOneById(parseInt(reqs[s].tokenResult.userId))
  IN /\ reqs[s].pc = "resetPassword:findOne"
     /\ IF dbFails
        THEN /\ ret' = Respond(NoCall, s, 500, "Internal server error")
             /\ reqs' = [reqs EXCEPT ![s] = Idle]
        ELSE IF user = NULL
        THEN /\ ret' = Respond(NoCall, s, 404, "User not found")
             /\ reqs' = [reqs EXCEPT ![s] = Idle]
        ELSE /\ ret' = NoCall
             /\ reqs' = [reqs EXCEPT ![s] =
                           [pc |-> "resetPassword:hash", user |-> user,
                            newPassword |-> reqs[s].newPassword,
                            issuance |-> reqs[s].issuance]]
     /\ UNCHANGED <<clockVars, storeVars, users, dbVars, authVars>>

\* resetPassword after bcrypt.hash settled: user.password is set and
\* user.save() started
resetPassword_hashed(s) ==
  /\ reqs[s].pc = "resetPassword:hash"
  /\ ret' = NoCall
  /\ reqs' = [reqs EXCEPT ![s] =
                [pc |-> "resetPassword:save",
                 user |-> [reqs[s].user EXCEPT
                             !.password = bcryptHash(reqs[s].newPassword)],
                 issuance |-> reqs[s].issuance]]
  /\ UNCHANGED <<clockVars, storeVars, users, dbVars, authVars>>

\* resetPassword after user.save() settled: the document is written unless
\* the save failed or the document is gone
resetPassword_saved(s, dbFails) ==
  LET user == reqs[s].user
      stored == {u \in users : u.oid = user.oid}
  IN /\ reqs[s].pc = "resetPassword:save"
     /\ IF dbFails \/ stored = {}
        THEN /\ ret' = Respond(NoCall, s, 500, "Internal server error")
             /\ UNCHANGED users
        ELSE /\ ret' = RespondData(NoCall, s, 200,
                                    "Password reset successfully",
                                    user.email)
             /\ users' =
                  (users \ stored)
                    \cup {[u EXCEPT !.password = user.password,
                                    !.resets = Append(@, reqs[s].issuance)]
                          : u \in stored}
     /\ reqs' = [reqs EXCEPT ![s] = Idle]
     /\ UNCHANGED <<clockVars, storeVars, authVars, dbVars>>

\* ------------------------------------------------------------------------
\* controllers/authController.js: POST /auth/signup
\* ------------------------------------------------------------------------
\* the validation errors of signup's body
signupErrors(name, email, password) ==
  (IF name = FALSY \/ Len(trim(name)) < 2 \/ Len(trim(name)) > 10
   THEN {"name"} ELSE {})
    \cup (IF email = FALSY \/ ~emailRegex(email) THEN {"email"} ELSE {})
    \cup (IF password = FALSY \/ Len(password) < 4
          THEN {"password"} ELSE {})

\* User.getNextId(): the highest id plus one, 1 for an empty collection or
\* when the query failed
userNextId(dbFails) ==
  IF dbFails \/ users = {} THEN 1
  ELSE (CHOOSE u \in users : \A v \in users : v.id <= u.id).id + 1

\* the unique indexes of the users: id and email
userDuplicateKey(doc) ==
  \E u \in users : u.id = doc.id \/ u.email = doc.email

\* signup up to its first await
signup(s, dbConnected, body) ==
  LET name == field(body, "name")
      email == field(body, "email")
      password == field(body, "password")
  IN
  /\ reqs[s].pc = "idle"
  /\ IF ~dbConnected
     THEN /\ ret' = Respond(NoCall, s, 503,
                             "Database connection not available")
          /\ UNCHANGED reqs
     ELSE IF bodyMissing(body)
     THEN /\ ret' = Respond(NoCall, s, 400, "Request body is missing")
          /\ UNCHANGED reqs
     ELSE IF signupErrors(name, email, password) # {}
     THEN /\ ret' = Respond(NoCall, s, 400, "Validation failed")
          /\ UNCHANGED reqs
     ELSE /\ ret' = NoCall
          /\ reqs' = [reqs EXCEPT ![s] =
                        [pc |-> "signup:findOne",
                         email |-> emailKey(email),
                         password |-> password]]
  /\ UNCHANGED <<clockVars, storeVars, users, authVars, dbVars>>

\* signup after User.findOne settled
signup_found(s, dbFails) ==
  /\ reqs[s].pc = "signup:findOne"
  /\ IF dbFails
     THEN /\ ret' = Respond(NoCall, s, 500, "Internal server error")
          /\ reqs' = [reqs EXCEPT ![s] = Idle]
     ELSE IF findOneByEmail(reqs[s].email) # NULL
     THEN /\ ret' = Respond(NoCall, s, 409, "Email already registered")
          /\ reqs' = [reqs EXCEPT ![s] = Idle]
     ELSE /\ ret' = NoCall
          /\ reqs' = [reqs EXCEPT ![s].pc = "signup:hash"]
  /\ UNCHANGED <<clockVars, storeVars, users, authVars, dbVars>>

\* signup after bcrypt.hash settled
signup_hashed(s) ==
  /\ reqs[s].pc = "signup:hash"
  /\ ret' = NoCall
  /\ reqs' = [reqs EXCEPT ![s] =
                [pc |-> "signup:getNextId",
                 email |-> reqs[s].email,
                 password |-> bcryptHash(reqs[s].password)]]
  /\ UNCHANGED <<clockVars, storeVars, users, authVars, dbVars>>

\* signup after User.getNextId() settled
signup_nextId(s, dbFails) ==
  /\ reqs[s].pc = "signup:getNextId"
  /\ ret' = NoCall
  /\ reqs' = [reqs EXCEPT ![s] =
                [pc |-> "signup:save",
                 newUser |-> [id |-> userNextId(dbFails),
                              email |-> reqs[s].email,
                              password |-> reqs[s].password]]]
  /\ UNCHANGED <<clockVars, storeVars, users, authVars, dbVars>>

\* signup after newUser.save() settled
signup_saved(s, dbFails) ==
  LET doc == reqs[s].newUser
  IN /\ reqs[s].pc = "signup:save"
     /\ IF dbFails
        THEN /\ ret' = Respond(NoCall, s, 500, "Internal server error")
             /\ UNCHANGED <<users, oidCounter>>
        ELSE IF userDuplicateKey(doc)
        THEN /\ ret' = Respond(NoCall, s, 409, "Email already registered")
             /\ UNCHANGED <<users, oidCounter>>
        ELSE /\ oidCounter < MaxUsers
             /\ oidCounter' = oidCounter + 1
             /\ users' = users \cup {[oid |-> oidCounter + 1, id |-> doc.id,
                                      email |-> doc.email,
                                      password |-> doc.password,
                                      resets |-> <<>>]}
             /\ ret' = RespondData(Call("signup", doc.email, doc.id,
                                        UNDEFINED),
                                   s, 201, "User registered successfully",
                                   doc.email)
     /\ reqs' = [reqs EXCEPT ![s] = Idle]
     /\ UNCHANGED <<clockVars, storeVars, authVars, events, registrations>>

\* ------------------------------------------------------------------------
\* controllers/deleteUser.js
\* ------------------------------------------------------------------------
\* req.params.id: the hexadecimal spelling of the ObjectId oid
ObjectId(oid) == [tag |-> "ObjectId", oid |-> oid]

\* req.params.id: a string that spells no ObjectId
InvalidObjectId == [tag |-> "string", oid |-> 0]

\* mongoose.Types.ObjectId.isValid(id)
isValid(id) == id.tag = "ObjectId"

\* deleteUser up to its await
deleteUser(s, id) ==
  /\ reqs[s].pc = "idle"
  /\ IF ~isValid(id)
     THEN /\ ret' = Respond(NoCall, s, 400, "Invalid user ID")
          /\ UNCHANGED reqs
     ELSE /\ ret' = NoCall
          /\ reqs' = [reqs EXCEPT ![s] =
                        [pc |-> "deleteUser:findByIdAndDelete",
                         id |-> id.oid]]
  /\ UNCHANGED <<clockVars, storeVars, users, authVars, dbVars>>

\* deleteUser after User.findByIdAndDelete settled
deleteUser_deleted(s, dbFails) ==
  LET found == {u \in users : u.oid = reqs[s].id}
  IN /\ reqs[s].pc = "deleteUser:findByIdAndDelete"
     /\ IF dbFails
        THEN /\ ret' = Respond(NoCall, s, 500, "Server error")
             /\ UNCHANGED users
        ELSE IF found = {}
        THEN /\ ret' = Respond(NoCall, s, 404, "User not found")
             /\ UNCHANGED users
        ELSE /\ ret' = Respond(Call("deleteUser",
                                    (CHOOSE u \in found : TRUE).email,
                                    reqs[s].id, UNDEFINED),
                               s, 200, "User deleted successfully")
             /\ users' = users \ found
     /\ reqs' = [reqs EXCEPT ![s] = Idle]
     /\ UNCHANGED <<clockVars, storeVars, authVars, dbVars>>

\* ------------------------------------------------------------------------
\* controllers/eventController.js: POST /save-information and
\* PUT /my-account (users are kept by id, email and password; no file is
\* uploaded with the request)
\* ------------------------------------------------------------------------
\* body.k !== undefined
defined(body, k) == k \in DOMAIN body

\* the answer of both handlers to the request's query and body, before the
\* first await; "" when the request passes
accountRequestRefusal(dbConnected, userId, body) ==
  IF ~dbConnected THEN <<503, "Database connection not available">>
  ELSE IF bodyMissing(body) THEN <<400, "Request body is missing">>
  ELSE IF userId = FALSY THEN <<400, "User ID is required">>
  ELSE IF parseIntIsNaN(userId) \/ parseInt(userId) <= 0
  THEN <<400, "Invalid user ID format">>
  ELSE <<0, "">>

\* User.findOne({ email, id: { $ne: userIdNumber } })
findOneByEmailNotId(email, n) ==
  IF \E u \in users : u.email = email /\ u.id # n
  THEN CHOOSE u \in users : u.email = email /\ u.id # n
  ELSE NULL

\* the name checks of both handlers for a name that is given
nameLengthError(name) ==
  name # FALSY /\ (Len(trim(name)) < 2 \/ Len(trim(name)) > 10)

\* the required validators of the schema on the paths of an update
updateValidationError(updateData) ==
  \/ defined(updateData, "email") /\ updateData.email = <<>>
  \/ defined(updateData, "name") /\ updateData.name = <<>>

\* the unique index on email, for the update of user n
updateDuplicateKey(updateData, n) ==
  /\ defined(updateData, "email")
  /\ \E u \in users : u.id # n /\ u.email = updateData.email

\* the user n after User.findOneAndUpdate({ id: n }, updateData)
userAfterUpdate(u, updateData) ==
  IF defined(updateData, "email")
  THEN [u EXCEPT !.email = updateData.email]
  ELSE u

\* User.findOneAndUpdate settled, for either handler: a rejected query, a
\* failed validator, a duplicate email and a user deleted meanwhile are
\* answered from the catch block
accountUpdated(s, dbFails, op, message) ==
  LET n == reqs[s].userIdNumber
      updateData == reqs[s].updateData
      found == {u \in users : u.id = n}
  IN /\ IF dbFails
        THEN /\ ret' = Respond(NoCall, s, 500, "Internal server error")
             /\ UNCHANGED users
        ELSE IF updateValidationError(updateData)
        THEN /\ ret' = Respond(NoCall, s, 400, "Validation failed")
             /\ UNCHANGED users
        ELSE IF found = {}
        THEN /\ ret' = Respond(NoCall, s, 500, "Internal server error")
             /\ UNCHANGED users
        ELSE IF updateDuplicateKey(updateData, n)
        THEN /\ ret' = Respond(NoCall, s, 409, "Email already registered")
             /\ UNCHANGED users
        ELSE /\ users' = (users \ found)
                           \cup {userAfterUpdate(u, updateData) : u \in found}
             /\ ret' = LET u == CHOOSE v \in found : TRUE
                       IN RespondData(
                            Call(op, userAfterUpdate(u, updateData).email,
                                 n, UNDEFINED),
                            s, 200, message,
                            userAfterUpdate(u, updateData).email)
     /\ reqs' = [reqs EXCEPT ![s] = Idle]
     /\ UNCHANGED <<clockVars, storeVars, authVars, dbVars>>

\* the validation errors of saveInformation's body
saveInformationErrors(body) ==
  (IF field(body, "email") = FALSY \/ ~emailRegex(field(body, "email"))
   THEN {"email"} ELSE {})
    \cup (IF field(body, "name") = FALSY
             \/ nameLengthError(field(body, "name"))
          THEN {"name"} ELSE {})
    \cup {k \in {"phone", "city", "school", "class", "image"} :
            field(body, k) = FALSY}

\* saveInformation up to its first await
saveInformation(s, dbConnected, userId, body) ==
  LET refusal == accountRequestRefusal(dbConnected, userId, body)
  IN /\ reqs[s].pc = "idle"
     /\ IF refusal[1] # 0
        THEN /\ ret' = Respond(NoCall, s, refusal[1], refusal[2])
             /\ UNCHANGED reqs
        ELSE /\ ret' = NoCall
             /\ reqs' = [reqs EXCEPT ![s] =
                           [pc |-> "saveInformation:findOne",
                            userIdNumber |-> parseInt(userId),
                            body |-> body]]
     /\ UNCHANGED <<clockVars, storeVars, users, authVars, dbVars>>

\* saveInformation after User.findOne({ id }) settled
saveInformation_found(s, dbFails) ==
  LET user == findOneById(reqs[s].userIdNumber)
      body == reqs[s].body
      updateData == [email |-> emailKey(field(body, "email")),
                     name |-> trim(field(body, "name"))]
  IN /\ reqs[s].pc = "saveInformation:findOne"
     /\ IF dbFails
        THEN /\ ret' = Respond(NoCall, s, 500, "Internal server error")
             /\ reqs' = [reqs EXCEPT ![s] = Idle]
        ELSE IF user = NULL
        THEN /\ ret' = Respond(NoCall, s, 404, "User not found")
             /\ reqs' = [reqs EXCEPT ![s] = Idle]
        ELSE IF saveInformationErrors(body) # {}
        THEN /\ ret' = Respond(NoCall, s, 400, "Validation failed")
             /\ reqs' = [reqs EXCEPT ![s] = Idle]
        ELSE /\ ret' = NoCall
             /\ reqs' = [reqs EXCEPT ![s] =
                           [pc |-> IF updateData.email # user.email
                                   THEN "saveInformation:findOneEmail"
                                   ELSE "saveInformation:findOneAndUpdate",
                            userIdNumber |-> reqs[s].userIdNumber,
                            updateData |-> updateData]]
     /\ UNCHANGED <<clockVars, storeVars, users, authVars, dbVars>>

\* saveInformation after the lookup of another user with the email settled
saveInformation_emailChecked(s, dbFails) ==
  /\ reqs[s].pc = "saveInformation:findOneEmail"
  /\ IF dbFails
     THEN /\ ret' = Respond(NoCall, s, 500, "Internal server error")
          /\ reqs' = [reqs EXCEPT ![s] = Idle]
     ELSE IF findOneByEmailNotId(reqs[s].updateData.email,
                                 reqs[s].userIdNumber) # NULL
     THEN /\ ret' = Respond(NoCall, s, 409, "Email already registered")
          /\ reqs' = [reqs EXCEPT ![s] = Idle]
     ELSE /\ ret' = NoCall
          /\ reqs' = [reqs EXCEPT ![s].pc = "saveInformation:findOneAndUpdate"]
  /\ UNCHANGED <<clockVars, storeVars, users, authVars, dbVars>>

\* saveInformation after User.findOneAndUpdate settled
saveInformation_updated(s, dbFails) ==
  /\ reqs[s].pc = "saveInformation:findOneAndUpdate"
  /\ accountUpdated(s, dbFails, "saveInformation",
                    "User information saved successfully")

\* updateData of updateMyAccount: only the fields the body gives
updateMyAccountData(body) ==
  IF defined(body, "email") /\ defined(body, "name")
  THEN [email |-> emailKey(body.email), name |-> trim(body.name)]
  ELSE IF defined(body, "email") THEN [email |-> emailKey(body.email)]
  ELSE IF defined(body, "name") THEN [name |-> trim(body.name)]
  ELSE <<>>

\* updateMyAccount, the handler behind authenticate on PUT /my-account, up
\* to its first await; the user it changes is the one of req.query.userId
updateMyAccount(s, dbConnected, userId, body) ==
  LET refusal == accountRequestRefusal(dbConnected, userId, body)
  IN /\ reqs[s].pc = "idle"
     /\ IF refusal[1] # 0
        THEN /\ ret' = Respond(NoCall, s, refusal[1], refusal[2])
             /\ UNCHANGED reqs
        ELSE /\ ret' = NoCall
             /\ reqs' = [reqs EXCEPT ![s] =
                           [pc |-> "updateMyAccount:findOne",
                            userIdNumber |-> parseInt(userId),
                            body |-> body]]
     /\ UNCHANGED <<clockVars, storeVars, users, authVars, dbVars>>

\* updateMyAccount after User.findOne({ id }) settled
updateMyAccount_found(s, dbFails) ==
  LET user == findOneById(reqs[s].userIdNumber)
      body == reqs[s].body
      email == field(body, "email")
  IN /\ reqs[s].pc = "updateMyAccount:findOne"
     /\ IF dbFails
        THEN /\ ret' = Respond(NoCall, s, 500, "Internal server error")
             /\ reqs' = [reqs EXCEPT ![s] = Idle]
        ELSE IF user = NULL
        THEN /\ ret' = Respond(NoCall, s, 404, "User not found")
             /\ reqs' = [reqs EXCEPT ![s] = Idle]
        ELSE IF email # FALSY /\ ~emailRegex(email)
        THEN /\ ret' = Respond(NoCall, s, 400, "Validation failed")
             /\ reqs' = [reqs EXCEPT ![s] = Idle]
        ELSE IF email # FALSY
        THEN /\ ret' = NoCall
             /\ reqs' = [reqs EXCEPT ![s].pc = "updateMyAccount:findOneEmail"]
        ELSE IF nameLengthError(field(body, "name"))
        THEN /\ ret' = Respond(NoCall, s, 400, "Validation failed")
             /\ reqs' = [reqs EXCEPT ![s] = Idle]
        ELSE /\ ret' = NoCall
             /\ reqs' = [reqs EXCEPT ![s] =
                           [pc |-> "updateMyAccount:findOneAndUpdate",
                            userIdNumber |-> reqs[s].userIdNumber,
                            updateData |-> updateMyAccountData(body)]]
     /\ UNCHANGED <<clockVars, storeVars, users, authVars, dbVars>>

\* updateMyAccount after the lookup of another user with the email settled
updateMyAccount_emailChecked(s, dbFails) ==
  LET body == reqs[s].body
  IN /\ reqs[s].pc = "updateMyAccount:findOneEmail"
     /\ IF dbFails
        THEN /\ ret' = Respond(NoCall, s, 500, "Internal server error")
             /\ reqs' = [reqs EXCEPT ![s] = Idle]
        ELSE IF findOneByEmailNotId(emailKey(body.email),
                                    reqs[s].userIdNumber) # NULL
        THEN /\ ret' = Respond(NoCall, s, 409, "Email already registered")
             /\ reqs' = [reqs EXCEPT ![s] = Idle]
        ELSE IF nameLengthError(field(body, "name"))
        THEN /\ ret' = Respond(NoCall, s, 400, "Validation failed")
             /\ reqs' = [reqs EXCEPT ![s] = Idle]
        ELSE /\ ret' = NoCall
             /\ reqs' = [reqs EXCEPT ![s] =
                           [pc |-> "updateMyAccount:findOneAndUpdate",
                            userIdNumber |-> reqs[s].userIdNumber,
                            updateData |-> updateMyAccountData(body)]]
     /\ UNCHANGED <<clockVars, storeVars, users, authVars, dbVars>>

\* updateMyAccount after User.findOneAndUpdate settled
updateMyAccount_updated(s, dbFails) ==
  /\ reqs[s].pc = "updateMyAccount:findOneAndUpdate"
  /\ accountUpdated(s, dbFails, "updateMyAccount",
                    "User account updated successfully")

\* ------------------------------------------------------------------------
\* controllers/deleteUser.js, event registration: POST /event-register
\* (the event is looked up in the field id of the Event schema of part_008;
\* createEvent and deleteEvent use the field eventId of the schema of
\* models/User.js)
\* ------------------------------------------------------------------------
\* !v || isNaN(parseInt(v)) || parseInt(v) <= 0
invalidNumericId(v) ==
  \/ v = FALSY
  \/ parseIntIsNaN(v)
  \/ parseInt(v) <= 0

\* the validation errors of registerForEvent's body
registerForEventErrors(userId, eventId) ==
  (IF invalidNumericId(userId) THEN {"userId"} ELSE {})
    \cup (IF invalidNumericId(eventId) THEN {"eventId"} ELSE {})

\* startOfDay.setHours(0, 0, 0, 0): midnight of the event's day in the
\* server's local time, which is env.TZ ms ahead of UTC
startOfDay(eventDate) == eventDate - ((eventDate + env.TZ) % DayMs)

\* endOfDay.setHours(23, 59, 59, 999)
endOfDay(eventDate) == startOfDay(eventDate) + DayMs - 1

\* Event.findOne({ id: n })
findEventById(n) ==
  IF \E e \in events : e.id = n THEN CHOOSE e \in events : e.id = n
  ELSE NULL

\* EventRegistration.findOne({ userId, eventId }) finds a document
existingRegistration(userId, eventId) ==
  \E r \in registrations : r.userId = userId /\ r.eventId = eventId

\* EventRegistration.findOne({ userId, eventDate: { $gte, $lte } }) finds a
\* document
sameDateRegistration(userId, eventDate) ==
  \E r \in registrations :
    /\ r.userId = userId
    /\ r.eventDate >= startOfDay(eventDate)
    /\ r.eventDate <= endOfDay(eventDate)

\* EventRegistration.getNextId(): the highest id plus one, 1 for an empty
\* collection or when the query failed
registrationNextId(dbFails) ==
  IF dbFails \/ registrations = {} THEN 1
  ELSE (CHOOSE r \in registrations :
          \A q \in registrations : q.id <= r.id).id + 1

\* the unique indexes of the registrations: id, and userId with eventId
duplicateKey(doc) ==
  \E r \in registrations :
    r.id = doc.id \/ (r.userId = doc.userId /\ r.eventId = doc.eventId)

\* registerForEvent up to its first await
registerForEvent(s, dbConnected, body) ==
  LET userId == field(body, "userId")
      eventId == field(body, "eventId")
  IN
  /\ reqs[s].pc = "idle"
  /\ IF ~dbConnected
     THEN /\ ret' = Respond(NoCall, s, 503,
                             "Database connection not available")
          /\ UNCHANGED reqs
     ELSE IF bodyMissing(body)
     THEN /\ ret' = Respond(NoCall, s, 400, "Request body is missing")
          /\ UNCHANGED reqs
     ELSE IF registerForEventErrors(userId, eventId) # {}
     THEN /\ ret' = Respond(NoCall, s, 400, "Validation failed")
          /\ UNCHANGED reqs
     ELSE /\ ret' = NoCall
          /\ reqs' = [reqs EXCEPT ![s] =
                        [pc |-> "registerForEvent:findEvent",
                         userId |-> parseInt(userId),
                         eventId |-> parseInt(eventId)]]
  /\ UNCHANGED <<clockVars, storeVars, users, authVars, dbVars>>

\* registerForEvent after Event.findOne settled
registerForEvent_eventFound(s, dbFails) ==
  LET event == findEventById(reqs[s].eventId)
  IN /\ reqs[s].pc = "registerForEvent:findEvent"
     /\ IF dbFails
        THEN /\ ret' = Respond(NoCall, s, 500, "Internal server error")
             /\ reqs' = [reqs EXCEPT ![s] = Idle]
        ELSE IF event = NULL
        THEN /\ ret' = Respond(NoCall, s, 404, "Event not found")
             /\ reqs' = [reqs EXCEPT ![s] = Idle]
        ELSE /\ ret' = NoCall
             /\ reqs' = [reqs EXCEPT ![s] =
                           [pc |-> "registerForEvent:findExisting",
                            userId |-> reqs[s].userId,
                            eventId |-> reqs[s].eventId,
                            eventDate |-> event.eventDate]]
     /\ UNCHANGED <<clockVars, storeVars, users, authVars, dbVars>>

\* registerForEvent after the lookup of a registration for this event settled
registerForEvent_existingFound(s, dbFails) ==
  /\ reqs[s].pc = "registerForEvent:findExisting"
  /\ IF dbFails
     THEN /\ ret' = Respond(NoCall, s, 500, "Internal server error")
          /\ reqs' = [reqs EXCEPT ![s] = Idle]
     ELSE IF existingRegistration(reqs[s].userId, reqs[s].eventId)
     THEN /\ ret' = Respond(NoCall, s, 409, "Already registered")
          /\ reqs' = [reqs EXCEPT ![s] = Idle]
     ELSE /\ ret' = NoCall
          /\ reqs' = [reqs EXCEPT ![s].pc = "registerForEvent:findSameDate"]
  /\ UNCHANGED <<clockVars, storeVars, users, authVars, dbVars>>

\* registerForEvent after the lookup of a registration on the same date
\* settled
registerForEvent_sameDateFound(s, dbFails) ==
  /\ reqs[s].pc = "registerForEvent:findSameDate"
  /\ IF dbFails
     THEN /\ ret' = Respond(NoCall, s, 500, "Internal server error")
          /\ reqs' = [reqs EXCEPT ![s] = Idle]
     ELSE IF sameDateRegistration(reqs[s].userId, reqs[s].eventDate)
     THEN /\ ret' = Respond(NoCall, s, 409,
                             "Already registered for this date")
          /\ reqs' = [reqs EXCEPT ![s] = Idle]
     ELSE /\ ret' = NoCall
          /\ reqs' = [reqs EXCEPT ![s].pc = "registerForEvent:getNextId"]
  /\ UNCHANGED <<clockVars, storeVars, users, authVars, dbVars>>

\* registerForEvent after EventRegistration.getNextId() settled
registerForEvent_nextId(s, dbFails) ==
  /\ reqs[s].pc = "registerForEvent:getNextId"
  /\ registrationNextId(dbFails) <= MaxRegistrationId
  /\ ret' = NoCall
  /\ reqs' = [reqs EXCEPT ![s] =
                [pc |-> "registerForEvent:save",
                 newRegistration |->
                   [id |-> registrationNextId(dbFails),
                    userId |-> reqs[s].userId,
                    eventId |-> reqs[s].eventId,
                    eventDate |-> reqs[s].eventDate]]]
  /\ UNCHANGED <<clockVars, storeVars, users, authVars, dbVars>>

\* registerForEvent after newRegistration.save() settled
registerForEvent_saved(s, dbFails) ==
  LET doc == reqs[s].newRegistration
  IN /\ reqs[s].pc = "registerForEvent:save"
     /\ IF dbFails
        THEN /\ ret' = Respond(NoCall, s, 500, "Internal server error")
             /\ UNCHANGED registrations
        ELSE IF duplicateKey(doc)
        THEN /\ ret' = Respond(NoCall, s, 409, "Already registered")
             /\ UNCHANGED registrations
        ELSE /\ ret' = Respond(Call("registerForEvent", <<>>, doc, doc), s,
                               201, "Successfully registered for event")
             /\ registrations' = registrations \cup {doc}
     /\ reqs' = [reqs EXCEPT ![s] = Idle]
     /\ UNCHANGED <<clockVars, storeVars, users, authVars, events, oidCounter>>

\* ------------------------------------------------------------------------
\* controllers/deleteUser.js, event registration: DELETE /event-register
\* ------------------------------------------------------------------------
\* the validation errors of unregisterFromEvent's body
unregisterFromEventErrors(userId, eventId) ==
  (IF invalidNumericId(userId) THEN {"userId"} ELSE {})
    \cup (IF invalidNumericId(eventId) THEN {"eventId"} ELSE {})

\* unregisterFromEvent up to its first await
unregisterFromEvent(s, dbConnected, body) ==
  LET userId == field(body, "userId")
      eventId == field(body, "eventId")
  IN
  /\ reqs[s].pc = "idle"
  /\ IF ~dbConnected
     THEN /\ ret' = Respond(NoCall, s, 503,
                             "Database connection not available")
          /\ UNCHANGED reqs
     ELSE IF bodyMissing(body)
     THEN /\ ret' = Respond(NoCall, s, 400, "Request body is missing")
          /\ UNCHANGED reqs
     ELSE IF unregisterFromEventErrors(userId, eventId) # {}
     THEN /\ ret' = Respond(NoCall, s, 400, "Validation failed")
          /\ UNCHANGED reqs
     ELSE /\ ret' = NoCall
          /\ reqs' = [reqs EXCEPT ![s] =
                        [pc |-> "unregisterFromEvent:findEvent",
                         userId |-> parseInt(userId),
                         eventId |-> parseInt(eventId)]]
  /\ UNCHANGED <<clockVars, storeVars, users, authVars, dbVars>>

\* unregisterFromEvent after Event.findOne settled
unregisterFromEvent_eventFound(s, dbFails) ==
  /\ reqs[s].pc = "unregisterFromEvent:findEvent"
  /\ IF dbFails
     THEN /\ ret' = Respond(NoCall, s, 500, "Internal server error")
          /\ reqs' = [reqs EXCEPT ![s] = Idle]
     ELSE IF findEventById(reqs[s].eventId) = NULL
     THEN /\ ret' = Respond(NoCall, s, 404, "Event not found")
          /\ reqs' = [reqs EXCEPT ![s] = Idle]
     ELSE /\ ret' = NoCall
          /\ reqs' = [reqs EXCEPT ![s].pc = "unregisterFromEvent:findOne"]
  /\ UNCHANGED <<clockVars, storeVars, users, authVars, dbVars>>

\* unregisterFromEvent after EventRegistration.findOne settled
unregisterFromEvent_found(s, dbFails) ==
  /\ reqs[s].pc = "unregisterFromEvent:findOne"
  /\ IF dbFails
     THEN /\ ret' = Respond(NoCall, s, 500, "Internal server error")
          /\ reqs' = [reqs EXCEPT ![s] = Idle]
     ELSE IF ~existingRegistration(reqs[s].userId, reqs[s].eventId)
     THEN /\ ret' = Respond(NoCall, s, 404, "Registration not found")
          /\ reqs' = [reqs EXCEPT ![s] = Idle]
     ELSE /\ ret' = NoCall
          /\ reqs' = [reqs EXCEPT ![s].pc = "unregisterFromEvent:delete"]
  /\ UNCHANGED <<clockVars, storeVars, users, authVars, dbVars>>

\* the registrations after
\* EventRegistration.findOneAndDelete({ userId, eventId })
registrationsAfterFindOneAndDelete(userId, eventId) ==
  {r \in registrations : ~(r.userId = userId /\ r.eventId = eventId)}

\* unregisterFromEvent after EventRegistration.findOneAndDelete settled
unregisterFromEvent_deleted(s, dbFails) ==
  /\ reqs[s].pc = "unregisterFromEvent:delete"
  /\ IF dbFails
     THEN /\ ret' = Respond(NoCall, s, 500, "Internal server error")
          /\ UNCHANGED registrations
     ELSE /\ ret' = Respond(Call("unregisterFromEvent", <<>>,
                                 reqs[s].eventId, UNDEFINED),
                            s, 200, "Successfully unregistered from event")
          /\ registrations' =
               registrationsAfterFindOneAndDelete(reqs[s].userId,
                                                  reqs[s].eventId)
  /\ reqs' = [reqs EXCEPT ![s] = Idle]
  /\ UNCHANGED <<clockVars, storeVars, users, authVars, events, oidCounter>>

\* ------------------------------------------------------------------------
\* controllers/eventController.js: POST /create-event (no file is uploaded
\* with the request)
\* ------------------------------------------------------------------------
\* body.eventDate: a string that spells the instant ms
DateString(ms) == [tag |-> "date", ms |-> ms]

\* body.eventDate: a string that spells no date
NotADate == [tag |-> "string", ms |-> 0]

\* isNaN(new Date(eventDate).getTime())
isInvalidDate(eventDate) == eventDate.tag # "date"

\* /^([0-1]?[0-9]|2[0-3]):[0-5][0-9]$/.test(s)
timeRegex(s) ==
  \E i \in 1..Len(s) :
    /\ s[i] = ":"
    /\ LET h == SubSeq(s, 1, i - 1)
           m == SubSeq(s, i + 1, Len(s))
       IN /\ Len(m) = 2
          /\ m[1] \in {"0", "1", "2", "3", "4", "5"}
          /\ isDigit(m[2])
          /\ \/ Len(h) = 1 /\ isDigit(h[1])
             \/ Len(h) = 2 /\ h[1] \in {"0", "1"} /\ isDigit(h[2])
             \/ Len(h) = 2 /\ h[1] = "2" /\ h[2] \in {"0", "1", "2", "3"}

\* hours * 60 + minutes of a time that passes timeRegex
minutesOf(s) ==
  LET i == CHOOSE j \in 1..Len(s) : s[j] = ":"
  IN parseDigits(SubSeq(s, 1, i - 1), 0) * 60
       + parseDigits(SubSeq(s, i + 1, Len(s)), 0)

\* a time slot of the body that createEvent refuses
timeSlotError(slot) ==
  \/ slot.start = FALSY
  \/ slot.end = FALSY
  \/ ~timeRegex(slot.start)
  \/ ~timeRegex(slot.end)
  \/ minutesOf(slot.end) <= minutesOf(slot.start)

\* the validation errors of createEvent's body; timeSlots is the array the
\* body gives, as such or as a JSON string, and none when it is absent,
\* empty or no array
createEventErrors(body) ==
  LET title == field(body, "title")
      description == field(body, "description")
      eventDate == field(body, "eventDate")
      location == field(body, "location")
      timeSlots == field(body, "timeSlots")
  IN (IF title = FALSY \/ Len(trim(title)) < 2 \/ Len(trim(title)) > 100
      THEN {"title"} ELSE {})
       \cup (IF description = FALSY \/ Len(trim(description)) < 10
             THEN {"description"} ELSE {})
       \cup (IF eventDate = FALSY THEN {"eventDate"}
             ELSE IF isInvalidDate(eventDate) THEN {"eventDate"} ELSE {})
       \cup (IF location = FALSY \/ Len(trim(location)) < 2
             THEN {"location"} ELSE {})
       \cup (IF field(body, "image") = FALSY THEN {"image"} ELSE {})
       \cup (IF timeSlots = FALSY
                \/ \E i \in 1..Len(timeSlots) : timeSlotError(timeSlots[i])
             THEN {"timeSlots"} ELSE {})

\* Event.getNextTimeSlotId(): the highest id_event_date of all events plus
\* one, 1 when no event has a time slot or when the query failed
eventNextTimeSlotId(dbFails) ==
  LET ids == UNION {{e.timeSlots[i].id_event_date :
                       i \in 1..Len(e.timeSlots)} : e \in events}
  IN IF dbFails \/ ids = {} THEN 1
     ELSE (CHOOSE n \in ids : \A m \in ids : m <= n) + 1

\* Event.getNextId(): the highest eventId plus one, 1 when no event has an
\* eventId or when the query failed
eventNextId(dbFails) ==
  LET ids == {e.eventId : e \in events} \ {0}
  IN IF dbFails \/ ids = {} THEN 1
     ELSE (CHOOSE n \in ids : \A m \in ids : m <= n) + 1

\* the unique index of the events on eventId
eventDuplicateKey(doc) == \E e \in events : e.eventId = doc.eventId

\* createEvent up to its first await: an array of time slots is numbered
\* with an awaited query before the errors are answered
createEvent(s, dbConnected, body) ==
  /\ reqs[s].pc = "idle"
  /\ IF ~dbConnected
     THEN /\ ret' = Respond(NoCall, s, 503,
                             "Database connection not available")
          /\ UNCHANGED reqs
     ELSE IF bodyMissing(body)
     THEN /\ ret' = Respond(NoCall, s, 400, "Request body is missing")
          /\ UNCHANGED reqs
     ELSE IF field(body, "timeSlots") = FALSY
     THEN /\ ret' = Respond(NoCall, s, 400, "Validation failed")
          /\ UNCHANGED reqs
     ELSE /\ ret' = NoCall
          /\ reqs' = [reqs EXCEPT ![s] =
                        [pc |-> "createEvent:getNextTimeSlotId",
                         body |-> body]]
  /\ UNCHANGED <<clockVars, storeVars, users, authVars, dbVars>>

\* createEvent after Event.getNextTimeSlotId() settled
createEvent_timeSlotId(s, dbFails) ==
  LET body == reqs[s].body
      currentMaxId == eventNextTimeSlotId(dbFails) - 1
  IN /\ reqs[s].pc = "createEvent:getNextTimeSlotId"
     /\ currentMaxId + Len(body.timeSlots) <= MaxTimeSlotId
     /\ IF createEventErrors(body) # {}
        THEN /\ ret' = Respond(NoCall, s, 400, "Validation failed")
             /\ reqs' = [reqs EXCEPT ![s] = Idle]
        ELSE /\ ret' = NoCall
             /\ reqs' = [reqs EXCEPT ![s] =
                           [pc |-> "createEvent:getNextId",
                            body |-> body,
                            timeSlots |->
                              [i \in 1..Len(body.timeSlots) |->
                                 [id_event_date |-> currentMaxId + i,
                                  start |-> trim(body.timeSlots[i].start),
                                  end |-> trim(body.timeSlots[i].end)]]]]
     /\ UNCHANGED <<clockVars, storeVars, users, authVars, dbVars>>

\* createEvent after Event.getNextId() settled: new Event({ .. })
createEvent_nextId(s, dbFails) ==
  LET body == reqs[s].body
  IN /\ reqs[s].pc = "createEvent:getNextId"
     /\ ret' = NoCall
     /\ reqs' = [reqs EXCEPT ![s] =
                   [pc |-> "createEvent:save",
                    newEvent |-> [id |-> 0, eventId |-> eventNextId(dbFails),
                                  title |-> trim(body.title),
                                  description |-> trim(body.description),
                                  eventDate |-> body.eventDate.ms,
                                  location |-> trim(body.location),
                                  image |-> trim(body.image),
                                  timeSlots |-> reqs[s].timeSlots]]]
     /\ UNCHANGED <<clockVars, storeVars, users, authVars, dbVars>>

\* the validators of the Event schema refuse the document: a required
\* string is empty, or a title, description or location has a length out
\* of its bounds
eventValidationError(doc) ==
  \/ doc.title = <<>> \/ Len(doc.title) < 2 \/ Len(doc.title) > 100
  \/ doc.description = <<>> \/ Len(doc.description) < 10
  \/ doc.location = <<>> \/ Len(doc.location) < 2
  \/ doc.image = <<>>
  \/ \E i \in 1..Len(doc.timeSlots) :
       doc.timeSlots[i].start = <<>> \/ doc.timeSlots[i].end = <<>>

\* createEvent after newEvent.save() settled: the document is validated
\* before it is written; of a written document the collection keeps the
\* fields the controllers query
createEvent_saved(s, dbFails) ==
  LET doc == reqs[s].newEvent
  IN /\ reqs[s].pc = "createEvent:save"
     /\ IF eventValidationError(doc)
        THEN /\ ret' = Respond(NoCall, s, 400, "Validation failed")
             /\ UNCHANGED events
        ELSE IF dbFails \/ eventDuplicateKey(doc)
        THEN /\ ret' = Respond(NoCall, s, 500, "Internal server error")
             /\ UNCHANGED events
        ELSE /\ doc.eventId <= MaxEventId
             /\ events' = events
                            \cup {[id |-> doc.id, eventId |-> doc.eventId,
                                   eventDate |-> doc.eventDate,
                                   timeSlots |-> doc.timeSlots]}
             /\ ret' = Respond(Call("createEvent", <<>>, doc.eventId,
                                    UNDEFINED),
                               s, 201, "Event created successfully")
     /\ reqs' = [reqs EXCEPT ![s] = Idle]
     /\ UNCHANGED <<clockVars, storeVars, users, authVars, registrations,
                   oidCounter>>

\* ------------------------------------------------------------------------
\* controllers/eventController.js: DELETE /events/:id
\* ------------------------------------------------------------------------
\* Event.findOne({ eventId: n })
findEventByEventId(n) ==
  IF \E e \in events : e.eventId = n
  THEN CHOOSE e \in events : e.eventId = n
  ELSE NULL

\* the events after Event.findOneAndDelete({ eventId: n })
eventsAfterFindOneAndDelete(n) == {e \in events : e.eventId # n}

\* deleteEvent up to its first await
deleteEvent(s, dbConnected, id) ==
  /\ reqs[s].pc = "idle"
  /\ IF ~dbConnected
     THEN /\ ret' = Respond(NoCall, s, 503,
                             "Database connection not available")
          /\ UNCHANGED reqs
     ELSE IF id = FALSY
     THEN /\ ret' = Respond(NoCall, s, 400, "Event ID is required")
          /\ UNCHANGED reqs
     ELSE IF invalidNumericId(id)
     THEN /\ ret' = Respond(NoCall, s, 400, "Invalid event ID format")
          /\ UNCHANGED reqs
     ELSE /\ ret' = NoCall
          /\ reqs' = [reqs EXCEPT ![s] =
                        [pc |-> "deleteEvent:findOne",
                         eventId |-> parseInt(id)]]
  /\ UNCHANGED <<clockVars, storeVars, users, authVars, dbVars>>

\* deleteEvent after Event.findOne settled
deleteEvent_found(s, dbFails) ==
  /\ reqs[s].pc = "deleteEvent:findOne"
  /\ IF dbFails
     THEN /\ ret' = Respond(NoCall, s, 500, "Internal server error")
          /\ reqs' = [reqs EXCEPT ![s] = Idle]
     ELSE IF findEventByEventId(reqs[s].eventId) = NULL
     THEN /\ ret' = Respond(NoCall, s, 404, "Event not found")
          /\ reqs' = [reqs EXCEPT ![s] = Idle]
     ELSE /\ ret' = NoCall
          /\ reqs' = [reqs EXCEPT ![s].pc = "deleteEvent:deleteMany"]
  /\ UNCHANGED <<clockVars, storeVars, users, authVars, dbVars>>

\* the registrations after EventRegistration.deleteMany({ eventId })
registrationsAfterDeleteMany(eventId) ==
  {r \in registrations : r.eventId # eventId}

\* deleteEvent after EventRegistration.deleteMany settled
deleteEvent_registrationsDeleted(s, dbFails) ==
  /\ reqs[s].pc = "deleteEvent:deleteMany"
  /\ IF dbFails
     THEN /\ ret' = Respond(NoCall, s, 500, "Internal server error")
          /\ reqs' = [reqs EXCEPT ![s] = Idle]
          /\ UNCHANGED registrations
     ELSE /\ ret' = NoCall
          /\ registrations' = registrationsAfterDeleteMany(reqs[s].eventId)
          /\ reqs' = [reqs EXCEPT ![s].pc = "deleteEvent:delete"]
  /\ UNCHANGED <<clockVars, storeVars, users, authVars, events, oidCounter>>

\* deleteEvent after Event.findOneAndDelete settled
deleteEvent_deleted(s, dbFails) ==
  /\ reqs[s].pc = "deleteEvent:delete"
  /\ IF dbFails
     THEN /\ ret' = Respond(NoCall, s, 500, "Internal server error")
          /\ UNCHANGED events
     ELSE /\ ret' = Respond(Call("deleteEvent", <<>>, reqs[s].eventId,
                                 findEventByEventId(reqs[s].eventId)),
                            s, 200, "Event deleted successfully")
          /\ events' = eventsAfterFindOneAndDelete(reqs[s].eventId)
  /\ reqs' = [reqs EXCEPT ![s] = Idle]
  /\ UNCHANGED <<clockVars, storeVars, users, authVars, registrations,
                oidCounter>>

\* ------------------------------------------------------------------------
\* SpecEvents: two requests at a time register one user for events,
\* unregister the user and create and delete events, on a server at UTC or
\* at UTC+10
\* ------------------------------------------------------------------------
\* body.userId: the user, also written with a sign, or none
BodyUserIds == {<<"1">>, <<"+", "1">>, FALSY}

\* body.eventId and params.id: two events of one day, the second also
\* written in base 16, and one of no event
BodyEventIds == {<<"1">>, <<"2">>, <<"0", "x", "2">>, <<"9">>}

\* bodies of POST /create-event: every field, with the date a string that
\* does or does not spell one, a time slot that ends after or before its
\* start and an image that is a path or blank; the title alone
CreateBodies ==
  {[title |-> <<"p", "a", "r", "t", "y">>,
    description |-> <<"a", " ", "b", "i", "g", " ", "p", "a", "r", "t", "y">>,
    eventDate |-> x[1], location |-> <<"h", "q">>, image |-> x[3],
    timeSlots |-> <<[start |-> <<"1", "5", ":", "0", "0">>, end |-> x[2]]>>] :
     x \in {<<DateString(2 * DayMs), <<"1", "6", ":", "0", "0">>, <<"i">>>>,
            <<NotADate, <<"1", "6", ":", "0", "0">>, <<"i">>>>,
            <<DateString(2 * DayMs), <<"9", ":", "3", "0">>, <<"i">>>>,
            <<DateString(2 * DayMs), <<"1", "6", ":", "0", "0">>, <<" ">>>>}}
    \cup {[title |-> <<"p", "a", "r", "t", "y">>]}

\* the server's local time: UTC, or ten hours ahead of it
UtcOffsets == {0, 10 * 3600000}

\* the events controllers run on a server of either time zone, on an
\* events collection whose documents are numbered in the field id, one of
\* them possibly in the field eventId as well
InitEvents ==
  /\ now = 0
  /\ ticks = 0
  /\ issues = 0
  /\ otpStore = {}
  /\ resetTokenStore = {}
  /\ otpIssue = [k \in Keys |-> NoIssue]
  /\ resetIssue = [k \in Keys |-> NoIssue]
  /\ ret = Call("init", <<>>, <<>>, UNDEFINED)
  /\ reqs = [s \in Slots |-> Idle]
  /\ users = InitialUsers
  /\ \E tz \in UtcOffsets :
       env = [ACCESS_SECRET |-> "k1", REFRESH_SECRET |-> "k2", TZ |-> tz]
  /\ blacklistedTokens = {}
  /\ minted = {}
  /\ loggedOut = {}
  /\ events \in {InitialEvents, EventsNumberedTwice}
  /\ registrations = {}
  /\ oidCounter = 2

NextEvents ==
  \/ \E s \in Slots, db \in BOOLEAN,
        b \in {[userId |-> u, eventId |-> e] :
                 u \in BodyUserIds, e \in BodyEventIds}
                \cup FieldlessBodies :
       registerForEvent(s, db, b)
  \/ \E s \in Slots, db \in BOOLEAN,
        b \in {[userId |-> u, eventId |-> e] :
                 u \in BodyUserIds, e \in BodyEventIds}
                \cup FieldlessBodies :
       unregisterFromEvent(s, db, b)
  \/ \E s \in Slots, dbFails \in BOOLEAN :
       unregisterFromEvent_eventFound(s, dbFails)
  \/ \E s \in Slots, dbFails \in BOOLEAN :
       unregisterFromEvent_found(s, dbFails)
  \/ \E s \in Slots, dbFails \in BOOLEAN :
       unregisterFromEvent_deleted(s, dbFails)
  \/ \E s \in Slots, dbFails \in BOOLEAN :
       registerForEvent_eventFound(s, dbFails)
  \/ \E s \in Slots, dbFails \in BOOLEAN :
       registerForEvent_existingFound(s, dbFails)
  \/ \E s \in Slots, dbFails \in BOOLEAN :
       registerForEvent_sameDateFound(s, dbFails)
  \/ \E s \in Slots, dbFails \in BOOLEAN : registerForEvent_nextId(s, dbFails)
  \/ \E s \in Slots, dbFails \in BOOLEAN : registerForEvent_saved(s, dbFails)
  \/ \E s \in Slots, db \in BOOLEAN, e \in BodyEventIds \cup {FALSY} :
       deleteEvent(s, db, e)
  \/ \E s \in Slots, dbFails \in BOOLEAN : deleteEvent_found(s, dbFails)
  \/ \E s \in Slots, dbFails \in BOOLEAN :
       deleteEvent_registrationsDeleted(s, dbFails)
  \/ \E s \in Slots, dbFails \in BOOLEAN : deleteEvent_deleted(s, dbFails)
  \/ \E db \in BOOLEAN, b \in CreateBodies \cup {NoBody} :
       createEvent("r2", db, b)
  \/ \E dbFails \in BOOLEAN : createEvent_timeSlotId("r2", dbFails)
  \/ \E dbFails \in BOOLEAN : createEvent_nextId("r2", dbFails)
  \/ \E dbFails \in BOOLEAN : createEvent_saved("r2", dbFails)

SpecEvents == InitEvents /\ [][NextEvents]_vars

\* ------------------------------------------------------------------------
\* SpecRace: two requests at a time verify the credentials of one account
\* ------------------------------------------------------------------------
\* bodies of POST /auth/verify-otp: the codes, a missing one, a short one
BodyOtps == OtpInputs \cup {FALSY, <<"1", "2", "3">>}

BodyEmails == {a[1] : a \in AccountsOfA} \cup {FALSY}

NextRace ==
  \/ \E d \in RaceTickSteps : Tick(d)
  \/ \E a \in AccountsOfA, r \in RandomDraws :
       storeOTP(a[1], toString(a[2]), r)
  \/ \E s \in Slots, db \in BOOLEAN,
        b \in {[email |-> e, otp |-> c] : e \in BodyEmails, c \in BodyOtps}
                \cup FieldlessBodies :
       authController_verifyOTP(s, db, b)
  \/ \E s \in Slots, dbFails \in BOOLEAN :
       authController_verifyOTP_found(s, dbFails)
  \/ \E a \in AccountsOfA, h \in RandomHex :
       storeResetToken(a[1], toString(a[2]), h)
  \/ \E a \in AccountsOfA, t \in TokenInputs : verifyResetToken(a[1], t)

SpecRace == Init /\ [][NextRace]_vars

\* ------------------------------------------------------------------------
\* SpecFlow: one client at a time logs in, verifies the OTP, asks for a
\* password reset and resets the password of one account
\* ------------------------------------------------------------------------
\* just past the reset-token lifetime, and so past the OTP lifetime
FlowTickSteps == {900001}

\* body.email: a spelling of the account's address, or none
FlowEmails == {EmailAUpper, FALSY}

\* body.token: the plaintext tokens, one never issued, or none
FlowTokens ==
  {generateResetToken(h) : h \in RandomHex} \cup {<<"c", "3">>, FALSY}

Passwords == {<<"p", "1">>, <<"b", "a", "d">>, FALSY}

NewPasswords == {<<"n", "e", "w", "1">>, <<"n">>}

NextFlow ==
  \/ \E d \in FlowTickSteps : Tick(d)
  \/ \E db \in BOOLEAN,
        b \in {[email |-> e, password |-> p] :
                 e \in FlowEmails, p \in Passwords} \cup FieldlessBodies :
       login("r1", db, b)
  \/ \E dbFails \in BOOLEAN : login_found("r1", dbFails)
  \/ \E r \in RandomDraws : login_compared("r1", r)
  \/ \E delivered \in BOOLEAN : login_sent("r1", delivered)
  \/ \E db \in BOOLEAN,
        b \in {[email |-> e, otp |-> c] : e \in FlowEmails, c \in BodyOtps}
                \cup FieldlessBodies :
       authController_verifyOTP("r1", db, b)
  \/ \E dbFails \in BOOLEAN : authController_verifyOTP_found("r1", dbFails)
  \/ \E db \in BOOLEAN,
        b \in {[email |-> e] : e \in FlowEmails} \cup FieldlessBodies :
       forgotPassword("r1", db, b)
  \/ \E dbFails \in BOOLEAN, h \in RandomHex :
       forgotPassword_found("r1", dbFails, h)
  \/ \E delivered \in BOOLEAN : forgotPassword_sent("r1", delivered)
  \/ \E db \in BOOLEAN,
        b \in {[email |-> e, token |-> t, newPassword |-> p] :
                 e \in FlowEmails, t \in FlowTokens, p \in NewPasswords}
                \cup FieldlessBodies :
       resetPassword("r1", db, b)
  \/ \E dbFails \in BOOLEAN : resetPassword_found("r1", dbFails)
  \/ resetPassword_hashed("r1")
  \/ \E dbFails \in BOOLEAN : resetPassword_saved("r1", dbFails)

SpecFlow == Init /\ [][NextFlow]_vars

\* ------------------------------------------------------------------------
\* jsonwebtoken, as utils/jwtService.js uses it.  A token is its payload and
\* its signature; the signature names the key and the payload it was
\* computed over, so another key or a changed payload does not match it.
\* ------------------------------------------------------------------------
\* "15m" and "7d" in seconds
ACCESS_TOKEN_EXPIRY == 15 * 60

REFRESH_TOKEN_EXPIRY == 7 * 24 * 60 * 60

\* Math.floor(Date.now() / 1000)
clockTimestamp(t) == t \div 1000

hmac(secret, payload) == [key |-> secret, over |-> payload]

\* jwt.sign(payload, secret, { expiresIn }) at time t
jwtSign(payload, secret, expiresIn, t) ==
  LET claims == [userId |-> payload.userId, email |-> payload.email,
                 type |-> payload.type, iat |-> clockTimestamp(t),
                 exp |-> clockTimestamp(t) + expiresIn]
  IN [parts |-> 3, payload |-> claims, sig |-> hmac(secret, claims)]

\* jwt.verify(token, secret) at time t: the claims, or THROWN
jwtVerify(token, secret, t) ==
  IF secret = "" THEN THROWN
  ELSE IF token.parts # 3 THEN THROWN
  ELSE IF token.sig # hmac(secret, token.payload) THEN THROWN
  ELSE IF clockTimestamp(t) >= token.payload.exp THEN THROWN
  ELSE token.payload

\* ------------------------------------------------------------------------
\* utils/jwtService.js
\* ------------------------------------------------------------------------
\* variant: the payload of the earlier generateTokens, { id } and no type
generateAccessToken_legacy(userId, email, t) ==
  IF env.ACCESS_SECRET = "" THEN THROWN
  ELSE jwtSign([userId |-> <<>>, email |-> <<>>, type |-> ""],
               env.ACCESS_SECRET, ACCESS_TOKEN_EXPIRY, t)

generateAccessToken(userId, email, t) ==
  IF env.ACCESS_SECRET = "" THEN THROWN
  ELSE jwtSign([userId |-> toString(userId), email |-> email,
                type |-> "access"],
               env.ACCESS_SECRET, ACCESS_TOKEN_EXPIRY, t)

generateRefreshToken(userId, email, t) ==
  IF env.REFRESH_SECRET = "" THEN THROWN
  ELSE jwtSign([userId |-> toString(userId), email |-> email,
                type |-> "refresh"],
               env.REFRESH_SECRET, REFRESH_TOKEN_EXPIRY, t)

\* variant: the claims are returned whatever their type
tryVerifyAccessToken_anyType(token, t) ==
  IF env.ACCESS_SECRET = "" THEN THROWN
  ELSE jwtVerify(token, env.ACCESS_SECRET, t)

\* the try block of verifyAccessToken
tryVerifyAccessToken(token, t) ==
  IF env.ACCESS_SECRET = "" THEN THROWN
  ELSE LET decoded == jwtVerify(token, env.ACCESS_SECRET, t)
       IN IF decoded = THROWN THEN THROWN
          ELSE IF decoded.type # "access" THEN NULL
          ELSE decoded

\* the try block of verifyRefreshToken
tryVerifyRefreshToken(token, t) ==
  IF env.REFRESH_SECRET = "" THEN THROWN
  ELSE LET decoded == jwtVerify(token, env.REFRESH_SECRET, t)
       IN IF decoded = THROWN THEN THROWN
          ELSE IF decoded.type # "refresh" THEN NULL
          ELSE decoded

\* variant: no catch, what the try block throws reaches the caller
verifyRefreshTokenResult_noCatch(token, t) == tryVerifyRefreshToken(token, t)

\* verifyAccessToken(token): try { ... } catch { return null }
verifyAccessTokenResult(token, t) ==
  IF tryVerifyAccessToken(token, t) = THROWN THEN NULL
  ELSE tryVerifyAccessToken(token, t)

\* verifyRefreshToken(token): try { ... } catch { return null }
verifyRefreshTokenResult(token, t) ==
  IF tryVerifyRefreshToken(token, t) = THROWN THEN NULL
  ELSE tryVerifyRefreshToken(token, t)

\* ------------------------------------------------------------------------
\* Tokens presented to the verifications
\* ------------------------------------------------------------------------
\* a string that is no JWT
Garbage ==
  [parts |-> 1,
   payload |-> [userId |-> <<>>, email |-> <<>>, type |-> "", iat |-> 0,
                exp |-> 0],
   sig |-> hmac("", <<>>)]

\* a well-formed access token for user 1 signed with the key k
SignedWith(k) ==
  jwtSign([userId |-> toString(1), email |-> EmailA, type |-> "access"],
          k, REFRESH_TOKEN_EXPIRY * 100, 0)

\* a minted token whose type claim was rewritten, its signature kept
Retyped(token) ==
  [token EXCEPT
     !.payload.type = IF @ = "access" THEN "refresh" ELSE "access"]

\* the tokens a client can present: the minted ones, their rewritten
\* copies, a non-JWT, and tokens signed with a foreign and with the empty key
Presentable ==
  {m.token : m \in minted}
    \cup {Retyped(m.token) : m \in minted}
    \cup {Garbage, SignedWith("evil"), SignedWith("")}

Minted(by, token) == [by |-> by, token |-> token]

\* ------------------------------------------------------------------------
\* Actions of utils/jwtService.js
\* ------------------------------------------------------------------------
generateTokens(userId, email) ==
  LET accessToken == generateAccessToken(userId, email, now)
      refreshToken == generateRefreshToken(userId, email, now)
      thrown == accessToken = THROWN \/ refreshToken = THROWN
  IN /\ issues < MaxIssues
     /\ issues' = issues + 1
     /\ minted' = IF thrown THEN minted
                  ELSE minted \cup {Minted("generateAccessToken", accessToken),
                                    Minted("generateRefreshToken", refreshToken)}
     /\ ret' = Call("generateTokens", email, toString(userId),
                    IF thrown THEN THROWN
                    ELSE [accessToken |-> accessToken,
                          refreshToken |-> refreshToken])
     /\ UNCHANGED <<clockVars, otpStore, resetTokenStore, otpIssue,
                    resetIssue, reqs, users, dbVars, env,
                    blacklistedTokens, loggedOut>>

verifyAccessToken(token) ==
  /\ ret' = Call("verifyAccessToken", <<>>, token,
                 verifyAccessTokenResult(token, now))
  /\ UNCHANGED <<clockVars, storeVars, reqs, users, dbVars, authVars>>

verifyRefreshToken(token) ==
  /\ ret' = Call("verifyRefreshToken", <<>>, token,
                 verifyRefreshTokenResult(token, now))
  /\ UNCHANGED <<clockVars, storeVars, reqs, users, dbVars, authVars>>

\* ------------------------------------------------------------------------
\* utils/tokenBlacklist.js
\* ------------------------------------------------------------------------
Boolean(b) == [tag |-> "boolean", value |-> b]

\* variant: the token is not recorded
SetAdd_dropped(set, token) == set

\* blacklistedTokens.add(token)
SetAdd(set, token) == set \cup {token}

\* variant: membership is never found
SetHas_never(set, token) == FALSE

\* blacklistedTokens.has(token)
SetHas(set, token) == token \in set

\* variant: entries of expired tokens are evicted
blacklistAfterCleanup_evictsExpired(set, t) ==
  {token \in set : clockTimestamp(t) < token.payload.exp}

\* blacklistedTokens after cleanupBlacklist(): its body is empty
blacklistAfterCleanup(set, t) == set

blacklistToken(token) ==
  /\ blacklistedTokens' = SetAdd(blacklistedTokens, token)
  /\ ret' = Call("blacklistToken", <<>>, token, UNDEFINED)
  /\ UNCHANGED <<clockVars, storeVars, reqs, users, dbVars, env, minted,
               loggedOut>>

isTokenBlacklisted(token) ==
  /\ ret' = Call("isTokenBlacklisted", <<>>, token,
                 Boolean(SetHas(blacklistedTokens, token)))
  /\ UNCHANGED <<clockVars, storeVars, reqs, users, dbVars, authVars>>

cleanupBlacklist ==
  /\ blacklistedTokens' = blacklistAfterCleanup(blacklistedTokens, now)
  /\ ret' = Call("cleanupBlacklist", <<>>, <<>>, UNDEFINED)
  /\ UNCHANGED <<clockVars, storeVars, reqs, users, dbVars, env, minted,
               loggedOut>>

\* ------------------------------------------------------------------------
\* middleware/authMiddleware.js
\* ------------------------------------------------------------------------
\* the empty string where a token is expected
EmptyToken ==
  [parts |-> 0,
   payload |-> [userId |-> <<>>, email |-> <<>>, type |-> "", iat |-> 0,
                exp |-> 0],
   sig |-> hmac("", <<>>)]

\* An Authorization header: its first seven characters and the rest
Header(prefix, rest) == [prefix |-> prefix, rest |-> rest]

\* no Authorization header
NoHeader == Header("", EmptyToken)

\* authHeader && authHeader.startsWith("Bearer ")
startsWithBearer(authHeader) == authHeader.prefix = "Bearer "

\* authHeader.substring(7)
substring7(authHeader) == authHeader.rest

\* next() of slot s
NextCalled(call, s) == Respond(call, s, 0, "next()")

\* req.user = { id, email, name }
Attach(call, user) ==
  [call EXCEPT !.user = [id |-> user.id, email |-> user.email]]

\* the token authenticate reads from the header: none unless the header
\* starts with "Bearer "
bearerToken(authHeader) ==
  IF startsWithBearer(authHeader) THEN substring7(authHeader) ELSE EmptyToken

\* variant: the token is verified before the blacklist is consulted
authenticateRefusal_verifiesFirst(authHeader, blacklist, t) ==
  IF ~startsWithBearer(authHeader) THEN "Authentication required"
  ELSE IF substring7(authHeader) = EmptyToken THEN "Authentication required"
  ELSE IF verifyAccessTokenResult(substring7(authHeader), t) = NULL
  THEN "Invalid or expired token"
  ELSE IF SetHas(blacklist, substring7(authHeader))
  THEN "Token has been revoked"
  ELSE ""

\* the checks of authenticate before its await, in their order: the message
\* of the 401 it answers, or "" when the request goes on to the user lookup
authenticateRefusal(authHeader, blacklist, t) ==
  IF ~startsWithBearer(authHeader) THEN "Authentication required"
  ELSE IF substring7(authHeader) = EmptyToken THEN "Authentication required"
  ELSE IF SetHas(blacklist, substring7(authHeader))
  THEN "Token has been revoked"
  ELSE IF verifyAccessTokenResult(substring7(authHeader), t) = NULL
  THEN "Invalid or expired token"
  ELSE ""

\* authenticate up to its await: header, blacklist and token checks
authenticate(s, authHeader) ==
  LET token == bearerToken(authHeader)
      decoded == verifyAccessTokenResult(token, now)
      call == Call("authenticate", <<>>, token, UNDEFINED)
      refusal == authenticateRefusal(authHeader, blacklistedTokens, now)
  IN /\ reqs[s].pc = "idle"
     /\ IF refusal # ""
        THEN /\ ret' = Respond(call, s, 401, refusal)
             /\ UNCHANGED reqs
        ELSE /\ ret' = [call EXCEPT !.result = decoded]
             /\ reqs' = [reqs EXCEPT ![s] =
                           [pc |-> "authenticate:findOne", token |-> token,
                            decoded |-> decoded, revoked |-> FALSE]]
     /\ UNCHANGED <<clockVars, storeVars, users, dbVars, authVars>>

\* authenticate after its await: the user lookup has settled
authenticate_found(s, dbFails) ==
  LET user == findOneById(parseInt(reqs[s].decoded.userId))
      call == Call("authenticate", <<>>, reqs[s].token, reqs[s].decoded)
  IN /\ reqs[s].pc = "authenticate:findOne"
     /\ ret' = IF dbFails
               THEN Respond(call, s, 500, "Authentication error")
               ELSE IF user = NULL
               THEN Respond(call, s, 401, "User not found")
               ELSE NextCalled(Attach(call, user), s)
     /\ reqs' = [reqs EXCEPT ![s] = Idle]
     /\ UNCHANGED <<clockVars, storeVars, users, dbVars, authVars>>

\* optionalAuthenticate up to its await, or to next() without lookup
optionalAuthenticate(s, authHeader) ==
  LET token == substring7(authHeader)
      decoded == verifyAccessTokenResult(token, now)
      call == Call("optionalAuthenticate", <<>>, token, UNDEFINED)
  IN /\ reqs[s].pc = "idle"
     /\ IF startsWithBearer(authHeader) /\ decoded # NULL
        THEN /\ ret' = [call EXCEPT !.result = decoded]
             /\ reqs' = [reqs EXCEPT ![s] =
                           [pc |-> "optionalAuthenticate:findOne",
                            token |-> token, decoded |-> decoded,
                            revoked |-> SetHas(blacklistedTokens, token)]]
        ELSE /\ ret' = NextCalled(call, s)
             /\ UNCHANGED reqs
     /\ UNCHANGED <<clockVars, storeVars, users, dbVars, authVars>>

\* optionalAuthenticate after its await: next() in every case
optionalAuthenticate_found(s, dbFails) ==
  LET user == findOneById(parseInt(reqs[s].decoded.userId))
      call == Call("optionalAuthenticate", <<>>, reqs[s].token,
                   reqs[s].decoded)
  IN /\ reqs[s].pc = "optionalAuthenticate:findOne"
     /\ ret' = IF dbFails \/ user = NULL
               THEN NextCalled(call, s)
               ELSE NextCalled(Attach(call, user), s)
     /\ reqs' = [reqs EXCEPT ![s] = Idle]
     /\ UNCHANGED <<clockVars, storeVars, users, dbVars, authVars>>

\* ------------------------------------------------------------------------
\* SpecAuth: one request at a time passes the middleware while tokens are
\* minted and revoked, time passes, a second request deletes the user and
\* the account requests change the user's email
\* ------------------------------------------------------------------------
\* half the access-token lifetime
AuthTickSteps == {450000}

\* the headers a client can send
Headers ==
  {Header("Bearer ", t) : t \in Presentable \cup {EmptyToken}}
    \cup {NoHeader} \cup {Header("Basic x", m.token) : m \in minted}

\* the tokens revoked: minted access tokens and a non-JWT
Revocable ==
  {m.token : m \in {n \in minted : n.by = "generateAccessToken"}}
    \cup {Garbage}

\* req.query.userId of the account requests
QueryUserIds == {<<"1">>}

\* the address user 1 moves to
EmailC == <<"c", "@", "x", ".", "y">>

\* bodies of PUT /my-account: a free address, the address of user 2, an
\* empty address
UpdateBodies == {[email |-> EmailC], [email |-> EmailB], [email |-> <<>>]}

\* bodies of POST /save-information: every field, with a free address; the
\* address alone
InformationBodies ==
  {[email |-> EmailC, phone |-> <<"1">>, city |-> <<"1">>,
    name |-> <<"n", "e", "w">>, school |-> <<"s">>, class |-> <<"5">>,
    image |-> <<"i">>],
   [email |-> EmailC]}

NextAuth ==
  \/ \E d \in AuthTickSteps : Tick(d)
  \/ \E u \in {v \in InitialUsers : v.id = 1} : generateTokens(u.id, u.email)
  \/ \E t \in Revocable : blacklistToken(t)
  \/ \E t \in Revocable : isTokenBlacklisted(t)
  \/ cleanupBlacklist
  \/ \E h \in Headers : authenticate("r1", h)
  \/ \E dbFails \in BOOLEAN : authenticate_found("r1", dbFails)
  \/ \E h \in Headers : optionalAuthenticate("r1", h)
  \/ \E dbFails \in BOOLEAN : optionalAuthenticate_found("r1", dbFails)
  \/ \E id \in {ObjectId(1), InvalidObjectId} : deleteUser("r2", id)
  \/ \E dbFails \in BOOLEAN : deleteUser_deleted("r2", dbFails)
  \/ \E db \in BOOLEAN, id \in QueryUserIds, b \in UpdateBodies :
       updateMyAccount("r1", db, id, b)
  \/ \E dbFails \in BOOLEAN : updateMyAccount_found("r1", dbFails)
  \/ \E dbFails \in BOOLEAN : updateMyAccount_emailChecked("r1", dbFails)
  \/ \E dbFails \in BOOLEAN : updateMyAccount_updated("r1", dbFails)
  \/ \E db \in BOOLEAN, id \in QueryUserIds, b \in InformationBodies :
       saveInformation("r1", db, id, b)
  \/ \E dbFails \in BOOLEAN : saveInformation_found("r1", dbFails)
  \/ \E dbFails \in BOOLEAN : saveInformation_emailChecked("r1", dbFails)
  \/ \E dbFails \in BOOLEAN : saveInformation_updated("r1", dbFails)

SpecAuth == Init /\ [][NextAuth]_vars

\* ------------------------------------------------------------------------
\* SpecAccounts: users sign up and are deleted while tokens minted for them
\* pass authenticate
\* ------------------------------------------------------------------------
\* the tokens the JWT service has signed by one of its generators
MintedBy(by) == {m.token : m \in {n \in minted : n.by = by}}

\* a third of the access-token lifetime
AccountTickSteps == {300000}

\* body.name, body.email and body.password of a signup
SignupNames == {<<"n", "e", "w">>, FALSY}

SignupEmails == {EmailC, EmailB}

SignupPasswords == {<<"p", "w", "d", "1">>}

NextAccounts ==
  \/ \E d \in AccountTickSteps : Tick(d)
  \/ \E u \in users : generateTokens(u.id, u.email)
  \/ \E db \in BOOLEAN,
        b \in {[name |-> n, email |-> e, password |-> p] :
                 n \in SignupNames, e \in SignupEmails,
                 p \in SignupPasswords} \cup FieldlessBodies :
       signup("r1", db, b)
  \/ \E dbFails \in BOOLEAN : signup_found("r1", dbFails)
  \/ signup_hashed("r1")
  \/ \E dbFails \in BOOLEAN : signup_nextId("r1", dbFails)
  \/ \E dbFails \in BOOLEAN : signup_saved("r1", dbFails)
  \/ \E id \in {ObjectId(n) : n \in 1..MaxUsers} \cup {InvalidObjectId} :
       deleteUser("r2", id)
  \/ \E dbFails \in BOOLEAN : deleteUser_deleted("r2", dbFails)
  \/ \E t \in MintedBy("generateAccessToken") :
       authenticate("r1", Header("Bearer ", t))
  \/ \E dbFails \in BOOLEAN : authenticate_found("r1", dbFails)

SpecAccounts == Init /\ [][NextAccounts]_vars

\* ------------------------------------------------------------------------
\* SpecDelivery: the login and password-reset flows of one account with
\* mails that may fail to be sent, one random draw each, while a second
\* request deletes the user
\* ------------------------------------------------------------------------
DeliveryDraws == {23456}
DeliveryHex == {<<"a", "1">>}
DeliveryTokens == {generateResetToken(h) : h \in DeliveryHex} \cup {FALSY}
DeliveryPasswords == {<<"n", "e", "w", "1">>}

NextDelivery ==
  \/ \E d \in FlowTickSteps : Tick(d)
  \/ \E db \in BOOLEAN,
        b \in {[email |-> e, password |-> p] :
                 e \in FlowEmails, p \in Passwords} \cup FieldlessBodies :
       login("r1", db, b)
  \/ \E dbFails \in BOOLEAN : login_found("r1", dbFails)
  \/ \E r \in DeliveryDraws : login_compared("r1", r)
  \/ \E delivered \in BOOLEAN : login_sent("r1", delivered)
  \/ \E db \in BOOLEAN,
        b \in {[email |-> e, otp |-> c] : e \in FlowEmails, c \in BodyOtps}
                \cup FieldlessBodies :
       authController_verifyOTP("r1", db, b)
  \/ \E dbFails \in BOOLEAN : authController_verifyOTP_found("r1", dbFails)
  \/ \E db \in BOOLEAN,
        b \in {[email |-> e] : e \in FlowEmails} \cup FieldlessBodies :
       forgotPassword("r1", db, b)
  \/ \E dbFails \in BOOLEAN, h \in DeliveryHex :
       forgotPassword_found("r1", dbFails, h)
  \/ \E delivered \in BOOLEAN : forgotPassword_sent("r1", delivered)
  \/ \E db \in BOOLEAN,
        b \in {[email |-> e, token |-> t, newPassword |-> p] :
                 e \in FlowEmails, t \in DeliveryTokens,
                 p \in DeliveryPasswords} \cup FieldlessBodies :
       resetPassword("r1", db, b)
  \/ \E dbFails \in BOOLEAN : resetPassword_found("r1", dbFails)
  \/ resetPassword_hashed("r1")
  \/ \E dbFails \in BOOLEAN : resetPassword_saved("r1", dbFails)
  \/ \E id \in {ObjectId(1), InvalidObjectId} : deleteUser("r2", id)
  \/ \E dbFails \in BOOLEAN : deleteUser_deleted("r2", dbFails)

SpecDelivery == Init /\ [][NextDelivery]_vars

\* ------------------------------------------------------------------------
\* SpecReset: one client at a time asks for a password reset and resets the
\* password while users are deleted and sign up
\* ------------------------------------------------------------------------
ResetHex == {<<"a", "1">>}
ResetTokens == {<<"a", "1">>, <<"z", "z">>}
ResetPasswords == {<<"n", "e", "w", "1">>}

NextReset ==
  \/ \E d \in FlowTickSteps : Tick(d)
  \/ \E db \in BOOLEAN : forgotPassword("r1", db, [email |-> EmailB])
  \/ \E dbFails \in BOOLEAN, h \in ResetHex :
       forgotPassword_found("r1", dbFails, h)
  \/ \E delivered \in BOOLEAN : forgotPassword_sent("r1", delivered)
  \/ \E db \in BOOLEAN, t \in ResetTokens, p \in ResetPasswords :
       resetPassword("r1", db,
                     [email |-> EmailB, token |-> t, newPassword |-> p])
  \/ \E dbFails \in BOOLEAN : resetPassword_found("r1", dbFails)
  \/ resetPassword_hashed("r1")
  \/ \E dbFails \in BOOLEAN : resetPassword_saved("r1", dbFails)
  \/ \E id \in {ObjectId(n) : n \in 1..MaxUsers} \cup {InvalidObjectId} :
       deleteUser("r2", id)
  \/ \E dbFails \in BOOLEAN : deleteUser_deleted("r2", dbFails)
  \/ \E db \in BOOLEAN, p \in SignupPasswords :
       signup("r1", db,
              [name |-> <<"n", "e", "w">>, email |-> EmailC, password |-> p])
  \/ \E dbFails \in BOOLEAN : signup_found("r1", dbFails)
  \/ signup_hashed("r1")
  \/ \E dbFails \in BOOLEAN : signup_nextId("r1", dbFails)
  \/ \E dbFails \in BOOLEAN : signup_saved("r1", dbFails)

SpecReset == Init /\ [][NextReset]_vars

\* ------------------------------------------------------------------------
\* POST /auth/refresh-token and POST /auth/logout (routes/authRoutes.js
\* 60-74).  The two handlers follow the reference flow the specification
\* records: refresh verifies the refresh token and mints an access token;
\* logout blacklists the access token of the header and the refresh token
\* of the body.
\* ------------------------------------------------------------------------
\* String.prototype.toString of the userId claim, as a number for
\* generateAccessToken: the claim is the decimal spelling of the id
claimedUserId(decoded) == parseInt(decoded.userId)

\* refreshToken: body.refreshToken -> a new access token
refreshToken(s, token) ==
  LET decoded == verifyRefreshTokenResult(token, now)
      accessToken ==
        generateAccessToken(claimedUserId(decoded), decoded.email, now)
      call == Call("refreshToken", <<>>, token, decoded)
  IN /\ reqs[s].pc = "idle"
     /\ IF token = EmptyToken
        THEN /\ ret' = Respond(Call("refreshToken", <<>>, token, UNDEFINED),
                               s, 400, "Refresh token is required")
             /\ UNCHANGED minted
        ELSE IF decoded = NULL
        THEN /\ ret' = Respond(call, s, 401,
                               "Invalid or expired refresh token")
             /\ UNCHANGED minted
        ELSE IF accessToken = THROWN
        THEN /\ ret' = Respond(call, s, 500, "Internal server error")
             /\ UNCHANGED minted
        ELSE /\ ret' = [Respond(call, s, 200, "Token refreshed successfully")
                          EXCEPT !.tokens = [accessToken |-> accessToken]]
             /\ minted' =
                  minted \cup {Minted("generateAccessToken", accessToken)}
     /\ UNCHANGED <<clockVars, storeVars, reqs, users, dbVars, env,
                    blacklistedTokens, loggedOut>>

\* the tokens a logout request presents: the bearer token of the header, if
\* any, and body.refreshToken, if any
presentedToLogout(authHeader, token) ==
  (IF startsWithBearer(authHeader) /\ substring7(authHeader) # EmptyToken
   THEN {substring7(authHeader)} ELSE {})
    \cup (IF token = EmptyToken THEN {} ELSE {token})

RECURSIVE SetAddAll(_, _)
SetAddAll(set, tokens) ==
  IF tokens = {} THEN set
  ELSE LET t == CHOOSE x \in tokens : TRUE
       IN SetAddAll(SetAdd(set, t), tokens \ {t})

\* logout: blacklistToken for each presented token, then 200
logout(s, authHeader, token) ==
  LET presented == presentedToLogout(authHeader, token)
      call == Call("logout", <<>>,
                   [accessToken |-> substring7(authHeader),
                    refreshToken |-> token], UNDEFINED)
  IN /\ reqs[s].pc = "idle"
     /\ blacklistedTokens' = SetAddAll(blacklistedTokens, presented)
     /\ loggedOut' = loggedOut \cup presented
     /\ ret' = Respond(call, s, 200, "Logged out successfully")
     /\ UNCHANGED <<clockVars, storeVars, reqs, users, dbVars, env, minted>>

\* ------------------------------------------------------------------------
\* SpecSession: tokens are minted, refreshed and logged out while requests
\* pass authenticate
\* ------------------------------------------------------------------------
\* a third of the access-token lifetime
SessionTickSteps == {300000}

\* the headers of the session requests: none, or a minted access token
SessionHeaders ==
  {NoHeader} \cup {Header("Bearer ", t) : t \in MintedBy("generateAccessToken")}

\* body.refreshToken: none, a non-JWT, or a minted token of either class
SessionBodies == {EmptyToken, Garbage} \cup {m.token : m \in minted}

\* body.refreshToken of a logout: none, or the refresh token minted together
\* with the access token of the header
LogoutBodies(h) ==
  {EmptyToken}
    \cup {r \in MintedBy("generateRefreshToken") :
            startsWithBearer(h) => r.payload.iat = substring7(h).payload.iat}

NextSession ==
  \/ \E d \in SessionTickSteps : Tick(d)
  \/ \E u \in {v \in InitialUsers : v.id = 1} : generateTokens(u.id, u.email)
  \/ \E t \in SessionBodies : refreshToken("r1", t)
  \/ \E h \in SessionHeaders :
       \E t \in LogoutBodies(h) : logout("r1", h, t)
  \/ \E h \in SessionHeaders : authenticate("r1", h)
  \/ \E dbFails \in BOOLEAN : authenticate_found("r1", dbFails)

SpecSession == Init /\ [][NextSession]_vars

\* ------------------------------------------------------------------------
\* SpecJwt: the JWT service under every configuration of the two secrets
\* ------------------------------------------------------------------------
\* one millisecond, one short of the access lifetime, the refresh lifetime
JwtTickSteps == {1, 899999, 604800000}

\* values of ACCESS_SECRET and REFRESH_SECRET; "" is not set
SecretValues == {"", "k1", "k2"}

InitJwt ==
  /\ now = 0
  /\ ticks = 0
  /\ issues = 0
  /\ otpStore = {}
  /\ resetTokenStore = {}
  /\ otpIssue = [k \in Keys |-> NoIssue]
  /\ resetIssue = [k \in Keys |-> NoIssue]
  /\ ret = Call("init", <<>>, <<>>, UNDEFINED)
  /\ reqs = [s \in Slots |-> Idle]
  /\ users = InitialUsers
  /\ env \in [ACCESS_SECRET : SecretValues \ {"k2"},
               REFRESH_SECRET : SecretValues, TZ : {0}]
  /\ blacklistedTokens = {}
  /\ minted = {}
  /\ loggedOut = {}
  /\ events = InitialEvents
  /\ registrations = {}
  /\ oidCounter = 2

NextJwt ==
  \/ \E d \in JwtTickSteps : Tick(d)
  \/ \E u \in InitialUsers : generateTokens(u.id, u.email)
  \/ \E t \in Presentable : verifyAccessToken(t)
  \/ \E t \in Presentable : verifyRefreshToken(t)

SpecJwt == InitJwt /\ [][NextJwt]_vars

\* ------------------------------------------------------------------------
\* Spec: both credential stores of one account, addressed by two spellings
\* of its email, under any order of issue, verify and sweep calls
\* ------------------------------------------------------------------------
Next ==
  \/ \E d \in StoreTickSteps : Tick(d)
  \/ \E a \in AccountsOfA, r \in RandomDraws :
       storeOTP(a[1], toString(a[2]), r)
  \/ \E a \in AccountsOfA, c \in OtpInputs : verifyOTP(a[1], c)
  \/ \E a \in AccountsOfA, h \in RandomHex :
       storeResetToken(a[1], toString(a[2]), h)
  \/ \E a \in AccountsOfA, t \in TokenInputs : verifyResetToken(a[1], t)
  \/ cleanupExpiredOTPs
  \/ cleanupExpiredTokens

Spec == Init /\ [][Next]_vars

\* ------------------------------------------------------------------------
\* SpecSweep: both credential stores of two accounts; issuances for one
\* account sweep the records of the other, and the sweeps, the read and the
\* delete of the reset-token store are called on their own as well
\* ------------------------------------------------------------------------
\* the OTP lifetime, the reset-token lifetime
SweepTickSteps == {30000, 900000}

\* the two accounts, as the controllers name them
SweepAccounts == {<<EmailA, 1>>, <<EmailB, 2>>}

\* the one draw of each generator
SweepDraws == {23456}

SweepHex == {<<"a", "1">>}

NextSweep ==
  \/ \E d \in SweepTickSteps : Tick(d)
  \/ \E a \in SweepAccounts, r \in SweepDraws :
       storeOTP(a[1], toString(a[2]), r)
  \/ \E a \in SweepAccounts, r \in SweepDraws :
       verifyOTP(a[1], generateOTP(r))
  \/ \E a \in SweepAccounts, h \in SweepHex :
       storeResetToken(a[1], toString(a[2]), h)
  \/ \E a \in SweepAccounts, h \in SweepHex :
       verifyResetToken(a[1], generateResetToken(h))
  \/ cleanupExpiredOTPs
  \/ cleanupExpiredTokens
  \/ \E a \in SweepAccounts : getResetToken(a[1])
  \/ \E a \in SweepAccounts : deleteResetToken(a[1])

SpecSweep == Init /\ [][NextSweep]_vars

\* ------------------------------------------------------------------------
\* SpecOtp: every exported operation of the OTP store
\* ------------------------------------------------------------------------
NextOtp ==
  \/ \E d \in OtpTickSteps : Tick(d)
  \/ \E a \in Accounts, r \in RandomDraws : storeOTP(a[1], toString(a[2]), r)
  \/ \E e \in Emails, c \in OtpInputs : verifyOTP(e, c)
  \/ \E e \in Emails : getOTP(e)
  \/ \E e \in Emails : deleteOTP(e)
  \/ cleanupExpiredOTPs

SpecOtp == Init /\ [][NextOtp]_vars

\* ------------------------------------------------------------------------
\* Claims on the OTP store and the reset-token store
\* ------------------------------------------------------------------------
\* C1: OTP verification is single-use.  Once a verifyOTP of the code of the
\* newest issuance for an account has succeeded, every later verifyOTP of
\* that code for the account returns null, until a new storeOTP for the
\* account; whatever calls come in between.
C1_OtpSingleUse ==
  [][ (/\ ret'.op = "verifyOTP"
       /\ Issued(otpIssue, ret'.key)
       /\ otpIssue[ret'.key].wins >= 1
       /\ ret'.arg = otpIssue[ret'.key].secret)
      => ret'.result = NULL ]_vars

\* a second verification of the consumed code, still inside the window,
\* has just been refused
C1_Witness ==
  /\ ret.op = "verifyOTP"
  /\ Issued(otpIssue, ret.key)
  /\ otpIssue[ret.key].wins = 1
  /\ ret.arg = otpIssue[ret.key].secret
  /\ now <= otpIssue[ret.key].at + 30000
  /\ ret.result = NULL

AtMostOneRecordPerKey(store) ==
  \A k \in Keys : Cardinality({e \in store : e.key = k}) <= 1

\* C2: in both stores a new issuance overwrites the previous record.  Each
\* key holds at most one record per store; a verification succeeds only with
\* the secret of the newest issuance for the key, and the newest secret does
\* verify while its record is live and unconsumed.
C2_NewestOnly ==
  /\ [](AtMostOneRecordPerKey(otpStore)
          /\ AtMostOneRecordPerKey(resetTokenStore))
  /\ [][ (ret'.op = "verifyOTP" /\ ret'.result # NULL)
          => (Issued(otpIssue, ret'.key)
              /\ ret'.arg = otpIssue[ret'.key].secret) ]_vars
  /\ [][ (ret'.op = "verifyResetToken" /\ ret'.result # NULL)
          => (Issued(resetIssue, ret'.key)
              /\ ret'.arg = resetIssue[ret'.key].secret) ]_vars
  /\ [][ (/\ ret'.op = "verifyOTP"
           /\ Issued(otpIssue, ret'.key)
           /\ ret'.arg = otpIssue[ret'.key].secret
           /\ otpIssue[ret'.key].wins = 0
           /\ now <= otpIssue[ret'.key].at + 30000)
          => ret'.result # NULL ]_vars
  /\ [][ (/\ ret'.op = "verifyResetToken"
           /\ Issued(resetIssue, ret'.key)
           /\ ret'.arg = resetIssue[ret'.key].secret
           /\ resetIssue[ret'.key].wins = 0
           /\ now <= resetIssue[ret'.key].at + 900000)
          => ret'.result # NULL ]_vars

\* a second OTP was issued over a live, different first one, and the first
\* code has just been refused while the second record is live
C2_Witness ==
  /\ ret.op = "verifyOTP"
  /\ Issued(otpIssue, ret.key)
  /\ otpIssue[ret.key].superseded = ret.arg
  /\ otpIssue[ret.key].secret # ret.arg
  /\ MapHas(otpStore, ret.key)
  /\ now <= MapGet(otpStore, ret.key).expiresAt
  /\ ret.result = NULL

\* C3: a verifyOTP at a time after expiresAt of the stored record returns
\* null, also for the correct code, and removes the record; a verifyOTP for
\* a key without record returns null and creates none.
C3_ExpiredOtpFails ==
  /\ [][ (/\ ret'.op = "verifyOTP"
           /\ MapHas(otpStore, ret'.key)
           /\ now > MapGet(otpStore, ret'.key).expiresAt)
          => (ret'.result = NULL /\ ~MapHas(otpStore', ret'.key)) ]_vars
  /\ [][ (ret'.op = "verifyOTP" /\ ~MapHas(otpStore, ret'.key))
          => (ret'.result = NULL /\ ~MapHas(otpStore', ret'.key)) ]_vars

\* the correct, never used code has just been refused after its expiry and
\* no record is left
C3_Witness ==
  /\ ret.op = "verifyOTP"
  /\ Issued(otpIssue, ret.key)
  /\ ret.arg = otpIssue[ret.key].secret
  /\ otpIssue[ret.key].wins = 0
  /\ now > otpIssue[ret.key].at + 30000
  /\ ret.result = NULL
  /\ ~MapHas(otpStore, ret.key)

\* C4: every stored OTP expires exactly 30 seconds after its issuance: the
\* code of the stored record verifies at issuance + 30000 ms or earlier and
\* never later.
C4_ThirtySeconds ==
  /\ [](\A e \in otpStore :
          Issued(otpIssue, e.key)
            /\ e.val.expiresAt = otpIssue[e.key].at + 30000)
  /\ [][ (/\ ret'.op = "verifyOTP"
           /\ MapHas(otpStore, ret'.key)
           /\ ret'.arg = MapGet(otpStore, ret'.key).otp)
          => (ret'.result # NULL
                <=> now <= otpIssue[ret'.key].at + 30000) ]_vars

\* the code has just verified exactly 30 seconds after its issuance
C4_Witness ==
  /\ ret.op = "verifyOTP"
  /\ ret.result # NULL
  /\ Issued(otpIssue, ret.key)
  /\ now = otpIssue[ret.key].at + 30000

\* C5: under any interleaving of the requests in flight, one issued OTP and
\* one issued reset token verify successfully at most once, also when two
\* requests present the same correct secret; and every stored record is
\* whole: all its fields come from the newest issuance for its key.
C5_AtMostOneWinner ==
  /\ \A k \in Keys :
       /\ Issued(otpIssue, k) => otpIssue[k].wins <= 1
       /\ Issued(resetIssue, k) => resetIssue[k].wins <= 1
  /\ \A e \in otpStore :
       /\ Issued(otpIssue, e.key)
       /\ e.val = [otp |-> otpIssue[e.key].secret,
                   expiresAt |-> otpIssue[e.key].at + 30000,
                   userId |-> otpIssue[e.key].userId]
  /\ \A e \in resetTokenStore :
       /\ Issued(resetIssue, e.key)
       /\ e.val = [token |-> hashToken(resetIssue[e.key].secret),
                   expiresAt |-> resetIssue[e.key].at + 900000,
                   userId |-> resetIssue[e.key].userId]

\* one request holds the successful result of the code and awaits its user
\* lookup while another request with the same code, inside the window, has
\* just been answered 401
C5_Witness ==
  /\ ret.op = "verifyOTP"
  /\ ret.response.status = 401
  /\ Issued(otpIssue, ret.key)
  /\ ret.arg = otpIssue[ret.key].secret
  /\ otpIssue[ret.key].wins = 1
  /\ now <= otpIssue[ret.key].at + 30000
  /\ \E s \in Slots :
       /\ s # ret.response.slot
       /\ reqs[s].pc = "verifyOTP:findOne"
       /\ reqs[s].otpResult.userId = otpIssue[ret.key].userId

\* ------------------------------------------------------------------------
\* Claims on the JWT service
\* ------------------------------------------------------------------------
\* what makes a presented token unacceptable as a token of the class
\* signed with secret and tagged type
Unacceptable(token, secret, type) ==
  \/ secret = ""
  \/ token.parts # 3
  \/ token.sig.key # secret
  \/ token.sig.over # token.payload
  \/ clockTimestamp(now) >= token.payload.exp
  \/ token.payload.type # type

\* a step of the middleware op that called next()
CalledNext(op) ==
  ret'.op = op /\ ret'.response.message = "next()"

\* C6: authenticate accepts only an unrevoked, valid access token.  A
\* request passes the checks of authenticate only if its bearer token is not
\* in the blacklist and is correctly signed with the access secret,
\* unexpired and of type access; next() is called, with req.user set, only
\* for a request that passed these checks and whose user exists; every
\* other answer of authenticate is a 401 or a 500 with no req.user.
C6_AuthenticateAcceptsOnlyValid ==
  /\ [][\A s \in Slots :
          (reqs[s].pc = "idle" /\ reqs'[s].pc = "authenticate:findOne")
            => /\ reqs'[s].token \notin blacklistedTokens
               /\ ~Unacceptable(reqs'[s].token, env.ACCESS_SECRET, "access")
               /\ reqs'[s].decoded.userId = reqs'[s].token.payload.userId
               /\ ret'.arg = reqs'[s].token]_vars
  /\ [][CalledNext("authenticate")
          => /\ reqs[ret'.response.slot].pc = "authenticate:findOne"
             /\ reqs[ret'.response.slot].token = ret'.arg
             /\ ret'.user # UNDEFINED
             /\ toString(ret'.user.id) = ret'.arg.payload.userId
             /\ \E u \in users : u.id = ret'.user.id]_vars
  /\ [][(ret'.op = "authenticate" /\ ret'.response # NoResponse
           /\ ~CalledNext("authenticate"))
          => /\ ret'.response.status \in {401, 500}
             /\ ret'.user = UNDEFINED]_vars

\* authenticate has just called next() with the user of the token while
\* another token is in the blacklist
C6_Witness ==
  /\ ret.op = "authenticate"
  /\ ret.response.message = "next()"
  /\ ret.user # UNDEFINED
  /\ blacklistedTokens # {}
  /\ ret.arg \notin blacklistedTokens

\* C7: the revocation registry is consulted on every authenticated
\* request.  Neither authenticate nor optionalAuthenticate attaches req.user
\* to a request whose token was in the blacklist when the request arrived.
C7_NoIdentityForRevoked ==
  [][(ret'.op \in {"authenticate", "optionalAuthenticate"}
       /\ ret'.user # UNDEFINED)
      => ~reqs[ret'.response.slot].revoked]_vars

\* C8: revocation is permanent and idempotent.  No step removes a token
\* from the blacklist; blacklistToken(t) leaves t in it, raises nothing and
\* changes nothing when t was already there; isTokenBlacklisted answers
\* membership and never changes the set.
C8_RevocationPermanent ==
  /\ [][blacklistedTokens \subseteq blacklistedTokens']_vars
  /\ [][ret'.op = "blacklistToken"
          => /\ ret'.arg \in blacklistedTokens'
             /\ ret'.result # THROWN
             /\ ret'.arg \in blacklistedTokens
                  => blacklistedTokens' = blacklistedTokens]_vars
  /\ [][ret'.op = "isTokenBlacklisted"
          => /\ blacklistedTokens' = blacklistedTokens
             /\ ret'.result = Boolean(ret'.arg \in blacklistedTokens)]_vars

\* cleanupBlacklist has just run after the lifetime of a blacklisted access
\* token ended, and the token is still in the blacklist
C8_Witness ==
  /\ ret.op = "cleanupBlacklist"
  /\ \E m \in minted :
       /\ m.by = "generateAccessToken"
       /\ m.token \in blacklistedTokens
       /\ clockTimestamp(now) >= m.token.payload.exp

\* C9: token classes are not interchangeable.  verifyAccessToken returns
\* null for every token generateRefreshToken produced and verifyRefreshToken
\* returns null for every token generateAccessToken produced, at every time
\* and under every configuration of the two secrets, equal ones included.
C9_ClassesNotInterchangeable ==
  \A m \in minted :
    /\ m.by = "generateRefreshToken"
         => verifyAccessTokenResult(m.token, now) = NULL
    /\ m.by = "generateAccessToken"
         => verifyRefreshTokenResult(m.token, now) = NULL

\* both secrets are the same key and verifyAccessToken has just refused an
\* unexpired refresh token whose signature that key accepts
C9_Witness ==
  /\ env.ACCESS_SECRET = env.REFRESH_SECRET
  /\ ret.op = "verifyAccessToken"
  /\ Minted("generateRefreshToken", ret.arg) \in minted
  /\ jwtVerify(ret.arg, env.ACCESS_SECRET, now) # THROWN
  /\ ret.result = NULL

\* C10: token verification fails closed.  For every presented token, a
\* malformed, wrongly signed, rewritten, expired or wrongly typed one and
\* also when the secret is not configured, verifyAccessToken and
\* verifyRefreshToken return null, and they never throw.
C10_FailsClosed ==
  \A token \in Presentable :
    /\ verifyAccessTokenResult(token, now) # THROWN
    /\ verifyRefreshTokenResult(token, now) # THROWN
    /\ Unacceptable(token, env.ACCESS_SECRET, "access")
         => verifyAccessTokenResult(token, now) = NULL
    /\ Unacceptable(token, env.REFRESH_SECRET, "refresh")
         => verifyRefreshTokenResult(token, now) = NULL

\* REFRESH_SECRET is not set and verifyRefreshToken has just returned null
\* for a well-formed token signed with the empty key
C10_Witness ==
  /\ env.REFRESH_SECRET = ""
  /\ ret.op = "verifyRefreshToken"
  /\ ret.arg = SignedWith("")
  /\ ret.result = NULL

\* ------------------------------------------------------------------------
\* Claims on refresh and logout
\* ------------------------------------------------------------------------
\* C11: the refresh operation consults the revocation registry.  A refresh
\* request whose token is in the blacklist never gets a new access token.
C11_RefreshConsultsRegistry ==
  [][(ret'.op = "refreshToken" /\ ret'.arg \in blacklistedTokens)
      => ret'.tokens = UNDEFINED]_vars

\* C12: refreshing with a valid refresh token issued for subject s answers
\* 200 with a new access token that verifyAccessToken accepts, with the
\* subject of the refresh token and type access; the step revokes nothing
\* and every token minted before verifies exactly as it did, the refresh
\* token included.
C12_RefreshMintsAndKeeps ==
  [][(/\ ret'.op = "refreshToken"
      /\ ret'.arg \in MintedBy("generateRefreshToken")
      /\ ~Unacceptable(ret'.arg, env.REFRESH_SECRET, "refresh"))
      => /\ ret'.response.status = 200
         /\ ret'.tokens # UNDEFINED
         /\ verifyAccessTokenResult(ret'.tokens.accessToken, now) # NULL
         /\ ret'.tokens.accessToken.payload.userId = ret'.arg.payload.userId
         /\ ret'.tokens.accessToken.payload.email = ret'.arg.payload.email
         /\ ret'.tokens.accessToken.payload.type = "access"
         /\ blacklistedTokens' = blacklistedTokens
         /\ minted \subseteq minted'
         /\ \A m \in minted :
              /\ verifyAccessTokenResult(m.token, now)'
                   = verifyAccessTokenResult(m.token, now)
              /\ verifyRefreshTokenResult(m.token, now)'
                   = verifyRefreshTokenResult(m.token, now)
         /\ \A m \in minted :
              m.token = ret'.arg
                => /\ verifyRefreshTokenResult(m.token, now)' # NULL
                   /\ m.token \notin blacklistedTokens'
                        \/ m.token \in blacklistedTokens]_vars

\* the only refresh token minted has just been refreshed again: an access
\* token of an earlier refresh exists beside the one just returned, and the
\* access token minted with the refresh token still verifies
C12_Witness ==
  /\ ret.op = "refreshToken"
  /\ ret.response.status = 200
  /\ MintedBy("generateRefreshToken") = {ret.arg}
  /\ \E a, b \in MintedBy("generateAccessToken") :
       /\ a.payload.iat = ret.arg.payload.iat
       /\ verifyAccessTokenResult(a, now) # NULL
       /\ b.payload.iat > a.payload.iat
       /\ b # ret.tokens.accessToken

\* C13: logout revokes both tokens.  A logout request leaves the access
\* token of its header and the refresh token of its body in the blacklist;
\* every token a logout presented stays there; and authenticate answers
\* every request that arrives with such a token as its bearer token with
\* 401 'Token has been revoked'.
C13_LogoutRevokesBoth ==
  /\ [][ret'.op = "logout"
          => /\ ret'.response.status = 200
             /\ ret'.arg.accessToken # EmptyToken
                  => ret'.arg.accessToken \in blacklistedTokens'
             /\ ret'.arg.refreshToken # EmptyToken
                  => ret'.arg.refreshToken \in blacklistedTokens']_vars
  /\ [][\A t \in loggedOut : t \in blacklistedTokens
                               /\ t \in blacklistedTokens']_vars
  /\ [][(/\ ret'.op = "authenticate"
          /\ ret'.arg \in loggedOut
          /\ \A s \in Slots : reqs[s].pc = "idle")
          => /\ ret'.response.status = 401
             /\ ret'.response.message = "Token has been revoked"
             /\ ret'.user = UNDEFINED
             /\ UNCHANGED reqs]_vars

\* authenticate has just refused an unexpired access token that a logout
\* presented together with its refresh token
C13_Witness ==
  /\ ret.op = "authenticate"
  /\ ret.response.message = "Token has been revoked"
  /\ verifyAccessTokenResult(ret.arg, now) # NULL
  /\ ret.arg \in loggedOut
  /\ \E r \in MintedBy("generateRefreshToken") :
       r \in loggedOut /\ r.payload.iat = ret.arg.payload.iat

\* ------------------------------------------------------------------------
\* Claims on the login and password-reset flows
\* ------------------------------------------------------------------------
\* C14: POST /auth/verify-otp answers 'Login successful' only to a request
\* whose verifyOTP succeeded, with the user the OTP was issued for by a
\* login, and the response carries one access token and one refresh token
\* minted in that step.
C14_LoginSuccessCarriesTokens ==
  [][ret'.response.message = "Login successful"
      => /\ reqs[ret'.response.slot].pc = "verifyOTP:findOne"
         /\ reqs[ret'.response.slot].otpResult # NULL
         /\ \E u \in users :
              toString(u.id) = reqs[ret'.response.slot].otpResult.userId
         /\ ret'.tokens # UNDEFINED
         /\ Minted("generateAccessToken", ret'.tokens.accessToken)
              \in minted' \ minted
         /\ Minted("generateRefreshToken", ret'.tokens.refreshToken)
              \in minted' \ minted]_vars

\* C15: a delivery failure is never swallowed.  When sendOTPEmail or
\* sendPasswordResetEmail fails, after the OTP or the reset token was
\* stored, the request is answered 500 'Failed to send ...'; the success
\* answer of either request follows only a delivery that succeeded.
C15_DeliveryFailureReported ==
  /\ [][(ret'.op = "sendOTPEmail" /\ ret'.result = THROWN)
          => /\ reqs[ret'.response.slot].pc = "login:send"
             /\ ret'.response.status = 500
             /\ ret'.response.message = "Failed to send OTP email"]_vars
  /\ [][(ret'.op = "sendPasswordResetEmail" /\ ret'.result = THROWN)
          => /\ reqs[ret'.response.slot].pc = "forgotPassword:send"
             /\ ret'.response.status = 500
             /\ ret'.response.message
                  = "Failed to send password reset email"]_vars
  /\ [][(\E s \in Slots :
            /\ reqs[s].pc \in {"login:send", "forgotPassword:send"}
            /\ reqs'[s].pc = "idle"
            /\ ret'.response.status = 200)
          => ret'.result # THROWN]_vars

\* the OTP of a login is in the store, unexpired, and the login has just
\* been answered 500 because its mail was not delivered
C15_Witness ==
  /\ ret.op = "sendOTPEmail"
  /\ ret.result = THROWN
  /\ ret.response.status = 500
  /\ MapHas(otpStore, ret.key)
  /\ MapGet(otpStore, ret.key).otp = ret.arg
  /\ now <= MapGet(otpStore, ret.key).expiresAt

\* the plaintext reset tokens storeResetToken can return
Plaintexts == {generateResetToken(h) : h \in RandomHex}

\* C16: the reset-token store never holds a plaintext token.  No record's
\* token field equals a plaintext storeResetToken can return; every record
\* holds hashToken of the plaintext of the newest issuance for its key, and
\* the value storeResetToken has just returned is in no record.
C16_NoPlaintextStored ==
  /\ \A e \in resetTokenStore :
       /\ e.val.token \notin Plaintexts
       /\ Issued(resetIssue, e.key)
       /\ e.val.token # resetIssue[e.key].secret
       /\ e.val.token = hashToken(resetIssue[e.key].secret)
  /\ ret.op = "storeResetToken"
       => \A e \in resetTokenStore : e.val.token # ret.result

\* storeResetToken has just returned a plaintext and the record of its key
\* holds the digest of it
C16_Witness ==
  /\ ret.op = "storeResetToken"
  /\ ret.result \in Plaintexts
  /\ MapHas(resetTokenStore, ret.key)
  /\ MapGet(resetTokenStore, ret.key).token = hashToken(ret.result)

\* C17: reset-token verification is single-use.  Once verifyResetToken
\* succeeded for the token of the newest issuance for an email, every later
\* verifyResetToken of that token for the email returns null until a new
\* issuance; a successful verification leaves no record; and no issuance
\* changes a password more than once.
C17_ResetSingleUse ==
  /\ [][(/\ ret'.op = "verifyResetToken"
          /\ Issued(resetIssue, ret'.key)
          /\ resetIssue[ret'.key].wins >= 1
          /\ ret'.arg = resetIssue[ret'.key].secret)
          => ret'.result = NULL]_vars
  /\ [][(ret'.op = "verifyResetToken" /\ ret'.result # NULL)
          => ~MapHas(resetTokenStore', ret'.key)]_vars
  /\ [](\A u \in users :
          \A i, j \in 1..Len(u.resets) :
            i # j => u.resets[i] # u.resets[j])

\* the token that changed the password has just been refused, inside its
\* fifteen minutes
C17_Witness ==
  /\ ret.op = "verifyResetToken"
  /\ ret.response.status = 401
  /\ Issued(resetIssue, ret.key)
  /\ ret.arg = resetIssue[ret.key].secret
  /\ resetIssue[ret.key].wins = 1
  /\ now <= resetIssue[ret.key].at + 900000
  /\ \E u \in users :
       /\ u.email = ret.key
       /\ u.resets = <<[key |-> ret.key, nth |-> resetIssue[ret.key].nth]>>

\* C18: a reset token expires 15 minutes after its issuance.  Every record
\* expires at issuance + 900000 ms; the correct token verifies on a live
\* record exactly up to that time; a verification after it returns null and
\* removes the record; and the token of the newest issuance never verifies
\* after that time.
C18_FifteenMinutes ==
  /\ [](\A e \in resetTokenStore :
          Issued(resetIssue, e.key)
            /\ e.val.expiresAt = resetIssue[e.key].at + 900000)
  /\ [][(/\ ret'.op = "verifyResetToken"
          /\ MapHas(resetTokenStore, ret'.key)
          /\ hashToken(ret'.arg) = MapGet(resetTokenStore, ret'.key).token)
          => (ret'.result # NULL
                <=> now <= resetIssue[ret'.key].at + 900000)]_vars
  /\ [][(/\ ret'.op = "verifyResetToken"
          /\ MapHas(resetTokenStore, ret'.key)
          /\ now > MapGet(resetTokenStore, ret'.key).expiresAt)
          => (ret'.result = NULL
              /\ ~MapHas(resetTokenStore', ret'.key))]_vars
  /\ [][(/\ ret'.op = "verifyResetToken"
          /\ Issued(resetIssue, ret'.key)
          /\ ret'.arg = resetIssue[ret'.key].secret
          /\ now > resetIssue[ret'.key].at + 900000)
          => ret'.result = NULL]_vars

\* the correct, never used token has just been refused one millisecond
\* after its fifteen minutes, and its record is gone
C18_Witness ==
  /\ ret.op = "verifyResetToken"
  /\ Issued(resetIssue, ret.key)
  /\ ret.arg = resetIssue[ret.key].secret
  /\ resetIssue[ret.key].wins = 0
  /\ now = resetIssue[ret.key].at + 900001
  /\ ret.result = NULL
  /\ ~MapHas(resetTokenStore, ret.key)

\* why otpService.verifyOTP(key, otp) fails in the current state, if it does
OtpFailureCauses(key, otp) ==
  (IF ~MapHas(otpStore, key) THEN {"no record"} ELSE {})
    \cup (IF MapHas(otpStore, key) /\ now > MapGet(otpStore, key).expiresAt
          THEN {"expired"} ELSE {})
    \cup (IF MapHas(otpStore, key) /\ MapGet(otpStore, key).otp # otp
          THEN {"wrong code"} ELSE {})

\* why verifyResetToken(key, token) fails in the current state, if it does
ResetFailureCauses(key, token) ==
  (IF ~MapHas(resetTokenStore, key) THEN {"no record"} ELSE {})
    \cup (IF MapHas(resetTokenStore, key)
             /\ now > MapGet(resetTokenStore, key).expiresAt
          THEN {"expired"} ELSE {})
    \cup (IF MapHas(resetTokenStore, key)
             /\ MapGet(resetTokenStore, key).token # hashToken(token)
          THEN {"wrong token"} ELSE {})

C20_MismatchKeepsRecord ==
  /\ [][(/\ ret'.op = "verifyOTP"
          /\ MapHas(otpStore, ret'.key)
          /\ now <= MapGet(otpStore, ret'.key).expiresAt
          /\ ret'.arg # MapGet(otpStore, ret'.key).otp)
          => (ret'.result = NULL /\ otpStore' = otpStore)]_vars
  /\ [][(/\ ret'.op = "verifyOTP"
          /\ MapHas(otpStore, ret'.key)
          /\ now <= MapGet(otpStore, ret'.key).expiresAt
          /\ ret'.arg = MapGet(otpStore, ret'.key).otp)
          => (/\ ret'.result # NULL
              /\ ret'.result.userId = otpIssue[ret'.key].userId)]_vars
  /\ [](\A e \in otpStore :
          /\ Issued(otpIssue, e.key)
          /\ e.val.otp = otpIssue[e.key].secret
          /\ e.val.userId = otpIssue[e.key].userId)

\* a wrong six-digit code has just been refused and the unexpired record of
\* the account still holds the issued code and the bound userId
C20_Witness ==
  /\ ret.op = "verifyOTP"
  /\ ret.result = NULL
  /\ ret.arg \in OtpInputs
  /\ MapHas(otpStore, ret.key)
  /\ now <= MapGet(otpStore, ret.key).expiresAt
  /\ ret.arg # MapGet(otpStore, ret.key).otp
  /\ MapGet(otpStore, ret.key).otp = otpIssue[ret.key].secret
  /\ MapGet(otpStore, ret.key).userId = otpIssue[ret.key].userId

\* what POST /auth/forgot-password answers for a well-formed email of no
\* account
UnknownEmailAnswer ==
  [status |-> 200,
   message |->
     "If an account with that email exists, a password reset link has been sent.",
   data |-> UNDEFINED]

\* C21: the forgot-password endpoint does not reveal whether an email is
\* registered.  Every answer of forgotPassword to a well-formed email, once
\* the lookup of the user has settled without a database error, has the
\* status and the body of the answer for an unknown address.
C21_ForgotPasswordUniform ==
  [][\A s \in Slots :
       (/\ reqs[s].pc \in {"forgotPassword:findOne", "forgotPassword:send"}
        /\ reqs'[s].pc = "idle"
        /\ ret'.response.message # "Internal server error")
       => /\ ret'.response.status = UnknownEmailAnswer.status
          /\ ret'.response.message = UnknownEmailAnswer.message
          /\ ret'.response.data = UnknownEmailAnswer.data]_vars

\* the calendar date of an event date, as the server's local time has it
DateOf(eventDate) == startOfDay(eventDate)

\* C22: a user can only register to one event per date.  In every state of
\* the registration store, also when POST /event-register requests are
\* handled concurrently, no user has two registrations whose events fall on
\* the same calendar date.
C22_OneEventPerDate ==
  \A r, q \in registrations :
    (r.userId = q.userId /\ DateOf(r.eventDate) = DateOf(q.eventDate))
      => r = q

C24_IssuanceSweeps ==
  /\ [][ret'.op = "storeOTP"
          => /\ \A e \in otpStore' : e.val.expiresAt >= now
             /\ \A e \in otpStore :
                  (e.key # ret'.key /\ e.val.expiresAt >= now)
                    => e \in otpStore'
             /\ MapHas(otpStore', ret'.key)
             /\ MapGet(otpStore', ret'.key).otp = ret'.result]_vars
  /\ [][ret'.op = "storeResetToken"
          => /\ \A e \in resetTokenStore' : e.val.expiresAt >= now
             /\ \A e \in resetTokenStore :
                  (e.key # ret'.key /\ e.val.expiresAt >= now)
                    => e \in resetTokenStore'
             /\ MapHas(resetTokenStore', ret'.key)
             /\ MapGet(resetTokenStore', ret'.key).token
                  = hashToken(ret'.result)]_vars

\* storeOTP has just returned for one account; the OTP of the other account,
\* never verified and past its expiry, is no longer in the store
C24_Witness ==
  /\ ret.op = "storeOTP"
  /\ MapHas(otpStore, ret.key)
  /\ \E k \in Keys :
       /\ k # ret.key
       /\ Issued(otpIssue, k)
       /\ otpIssue[k].wins = 0
       /\ otpIssue[k].at + 30000 < now
       /\ ~MapHas(otpStore, k)

\* C29: the expiry comparison is strict.  The correct code or token of a
\* record verifies exactly when now <= expiresAt, so still at now =
\* expiresAt; and a sweep, run by an issuance or called on its own, removes
\* no record that a verification at the same instant would have accepted.
C29_StrictExpiry ==
  /\ [][(/\ ret'.op = "verifyOTP"
          /\ MapHas(otpStore, ret'.key)
          /\ ret'.arg = MapGet(otpStore, ret'.key).otp)
          => (ret'.result # NULL
                <=> ~(now > MapGet(otpStore, ret'.key).expiresAt))]_vars
  /\ [][(/\ ret'.op = "verifyResetToken"
          /\ MapHas(resetTokenStore, ret'.key)
          /\ hashToken(ret'.arg) = MapGet(resetTokenStore, ret'.key).token)
          => (ret'.result # NULL
                <=> ~(now > MapGet(resetTokenStore, ret'.key).expiresAt))]_vars
  /\ [][ret'.op = "storeOTP"
          => \A e \in otpStore :
               (/\ e.key # ret'.key
                /\ verifyOTPResult(otpStore, e.key, e.val.otp, now) # NULL)
               => e \in otpStore']_vars
  /\ [][ret'.op = "storeResetToken"
          => \A e \in resetTokenStore :
               (/\ e.key # ret'.key
                /\ verifyResetTokenResult(resetTokenStore, e.key,
                                          resetIssue[e.key].secret, now)
                     # NULL)
               => e \in resetTokenStore']_vars
  /\ [][ret'.op = "cleanupExpiredOTPs"
          => \A e \in otpStore :
               verifyOTPResult(otpStore, e.key, e.val.otp, now) # NULL
                 => e \in otpStore']_vars
  /\ [][ret'.op = "cleanupExpiredTokens"
          => \A e \in resetTokenStore :
               verifyResetTokenResult(resetTokenStore, e.key,
                                      resetIssue[e.key].secret, now) # NULL
                 => e \in resetTokenStore']_vars

\* the issuance for one account has just run at the very expiry time of the
\* reset token of the other account, whose record is still in the store
C29_Witness ==
  /\ ret.op = "storeResetToken"
  /\ \E e \in resetTokenStore :
       /\ e.key # ret.key
       /\ e.val.expiresAt = now
       /\ resetIssue[e.key].wins = 0

\* C25: an access token issued for one account never authenticates a
\* request as a different account.  Whatever signups, deletions and logins
\* happened, when authenticate accepts token T and sets req.user, that user
\* has the id and the email T was minted for.
C25_TokenBoundToAccount ==
  [][(ret'.op = "authenticate" /\ ret'.user # UNDEFINED)
      => /\ toString(ret'.user.id) = ret'.arg.payload.userId
         /\ ret'.user.email = ret'.arg.payload.email]_vars

\* C26: a failed delivery does not roll back the issuance.  When login has
\* stored an OTP and sendOTPEmail then fails, the request is answered 500
\* and the OTP record is still in otpStore with the code that was to be
\* sent; a verifyOTP with the stored code at or before its expiry succeeds.
\* Likewise the reset token stored by forgotPassword stays after a failed
\* mail.
C26_NoRollback ==
  /\ [][(ret'.op = "sendOTPEmail" /\ ret'.result = THROWN)
          => /\ ret'.response.status = 500
             /\ otpStore' = otpStore
             /\ MapHas(otpStore', ret'.key)
             /\ MapGet(otpStore', ret'.key).otp = ret'.arg]_vars
  /\ [][(/\ ret'.op = "verifyOTP"
          /\ MapHas(otpStore, ret'.key)
          /\ ret'.arg = MapGet(otpStore, ret'.key).otp
          /\ now <= MapGet(otpStore, ret'.key).expiresAt)
          => ret'.result # NULL]_vars
  /\ [][(ret'.op = "sendPasswordResetEmail" /\ ret'.result = THROWN)
          => /\ ret'.response.status = 500
             /\ resetTokenStore' = resetTokenStore
             /\ MapHas(resetTokenStore', ret'.key)
             /\ MapGet(resetTokenStore', ret'.key).token
                  = hashToken(ret'.arg)]_vars
  /\ [][(/\ ret'.op = "verifyResetToken"
          /\ MapHas(resetTokenStore, ret'.key)
          /\ hashToken(ret'.arg) = MapGet(resetTokenStore, ret'.key).token
          /\ now <= MapGet(resetTokenStore, ret'.key).expiresAt)
          => ret'.result # NULL]_vars

\* login has just answered 500 for a failed delivery and the unexpired OTP
\* that was to be sent is in the store
C26_Witness ==
  /\ ret.op = "sendOTPEmail"
  /\ ret.result = THROWN
  /\ ret.response.status = 500
  /\ MapHas(otpStore, ret.key)
  /\ MapGet(otpStore, ret.key).otp = ret.arg
  /\ now <= MapGet(otpStore, ret.key).expiresAt

\* C27: a login attempt that fails validation, names an unknown email or
\* presents a wrong password leaves the OTP store unchanged, and a record is
\* written to the OTP store only by a login whose password matched the
\* stored hash of that account.
C27_FailedLoginKeepsStore ==
  /\ [][ret'.response.message
           \in {"Request body is missing", "Validation failed",
                "Invalid credentials", "Database connection not available"}
          => otpStore' = otpStore]_vars
  /\ [][\A s \in Slots :
          (reqs[s].pc \in {"login:findOne", "login:compare"}
             /\ reqs'[s].pc \in {"idle", "login:compare"})
            => otpStore' = otpStore]_vars
  /\ [][\A e \in otpStore' \ otpStore :
          \E s \in Slots :
            /\ reqs[s].pc = "login:compare"
            /\ bcryptHash(reqs[s].password) = reqs[s].user.password
            /\ e.key = reqs[s].user.email
            /\ e.val.userId = toString(reqs[s].user.id)]_vars

\* a login with a wrong password has just been refused while the unexpired
\* OTP of the account is pending
C27_Witness ==
  /\ ret.response.message = "Invalid credentials"
  /\ ret.response.status = 401
  /\ \E u \in users : u.email = EmailA
  /\ MapHas(otpStore, EmailA)
  /\ now <= MapGet(otpStore, EmailA).expiresAt
  /\ MapGet(otpStore, EmailA).otp = otpIssue[EmailA].secret

\* the slot is inside resetPassword, after its verifyResetToken succeeded
InResetPassword(s) ==
  reqs[s].pc \in {"resetPassword:findOne", "resetPassword:hash",
                  "resetPassword:save"}

\* C28: in resetPassword the password of a user is changed only after
\* verifyResetToken succeeded for the submitted email and token, and the
\* changed user is the one bound to the token at issuance: the account of
\* the email the token was issued for, with the id stored with the token.
\* The token is consumed before the user lookup and the save: when the
\* lookup finds no user or the save fails, the token is no longer in the
\* store and no password has changed.
C28_ResetOnlyAfterVerify ==
  /\ [][\A u \in users, v \in users' :
          (u.oid = v.oid /\ u.password # v.password)
            => \E s \in Slots :
                 /\ reqs[s].pc = "resetPassword:save"
                 /\ resetIssue[reqs[s].issuance.key].wins >= 1
                 /\ resetIssue[reqs[s].issuance.key].nth
                      = reqs[s].issuance.nth
                 /\ toString(v.id) = resetIssue[reqs[s].issuance.key].userId
                 /\ v.email = reqs[s].issuance.key]_vars
  /\ [][(ret'.op = "verifyResetToken" /\ ret'.result # NULL)
          => (~MapHas(resetTokenStore', ret'.key) /\ users' = users)]_vars
  /\ [][\A s \in Slots :
          (InResetPassword(s) /\ reqs'[s].pc = "idle"
             /\ ret'.response.status # 200)
            => /\ users' = users
               /\ ~MapHas(resetTokenStore', reqs[s].issuance.key)]_vars

\* C30: in authenticate the blacklist check comes before the verification
\* of signature and expiry and before the user lookup.  A request whose
\* bearer token is in the blacklist when the middleware runs is answered
\* 401 'Token has been revoked', whether or not the token is also expired,
\* malformed or of a deleted user; no req.user is set and no user lookup
\* is started for it.
C30_BlacklistCheckedFirst ==
  [][\A s \in Slots :
       (/\ ret'.op = "authenticate"
        /\ reqs[s].pc = "idle"
        /\ ret'.response.slot = s \/ reqs'[s].pc = "authenticate:findOne"
        /\ ret'.arg # EmptyToken
        /\ ret'.arg \in blacklistedTokens)
         => /\ ret'.response.status = 401
            /\ ret'.response.message = "Token has been revoked"
            /\ ret'.user = UNDEFINED
            /\ ret'.result = UNDEFINED
            /\ reqs'[s].pc = "idle"]_vars

\* authenticate has just answered 'Token has been revoked' for a
\* blacklisted access token that has also expired and whose user is deleted
C30_Witness ==
  /\ ret.op = "authenticate"
  /\ ret.response.message = "Token has been revoked"
  /\ ret.arg \in MintedBy("generateAccessToken")
  /\ ret.arg \in blacklistedTokens
  /\ verifyAccessTokenResult(ret.arg, now) = NULL
  /\ findOneById(parseInt(ret.arg.payload.userId)) = NULL

====
